---- MODULE Spec2Model ----
(***************************************************************************)
(* Post lifecycle, scheduler, publish queue and channel publishers of the  *)
(* marketing-agent server, as a state machine over the posts table.        *)
(* Handlers are split at the database awaits that separate their read from *)
(* their write, so that requests, scheduler ticks and publisher runs       *)
(* interleave as they do on the shared relational store.                   *)
(***************************************************************************)
EXTENDS Integers, Sequences, FiniteSets, TLC

\* SQL NULL / undefined / absent JSON field.
NULL == "null"
\* The same for a timestamp column or field.
NoTime == 0 - 1

\* ------------------------------------------------------------------ bounds
\* Largest number of rows of the posts table.
MaxPosts == 2
\* The wall clock runs over 0..MaxTime.
MaxTime == 1
\* Largest batchSize option handed to a scheduler tick.
MaxBatch == 2
\* The count of ingest triggers per post saturates here.
MaxIngest == 2
\* The count of queue.add calls saturates here.
MaxAdds == 2
\* Largest number of generation requests the limiter lets through.
MaxGen == 6
\* Largest number of pieces a fragment text is made of.
MaxParts == 2
\* Largest number of paragraphs of a text handed to chunkText on its own.
MaxPars == 3
\* Largest number of rows of the post_metrics table.
MaxMetrics == 2

\* ------------------------------------------------------- program constants
\* DEFAULT_JOB_OPTIONS.attempts
attempts == 3

CHANNELS == {"naver-blog", "instagram", "threads", "nextjs-blog"}
STATUSES == {"draft", "review", "approved", "publishing", "published", "failed"}

AllowAnyTransition ==
  [s \in STATUSES |-> STATUSES]

ALLOWED_STATUS_TRANSITIONS ==
  [s \in STATUSES |->
     CASE s = "draft"      -> {"review", "approved", "failed"}
       [] s = "review"     -> {"approved", "failed", "draft"}
       [] s = "approved"   -> {"publishing", "failed"}
       [] s = "publishing" -> {"published", "failed"}
       [] s = "published"  -> {}
       [] s = "failed"     -> {"draft", "approved"}]

\* ------------------------------------------------------------- input sets
Customers == {"c1", "c2"}
Keys == {"k1", "k2"}
Reqs == {"r1", "r2"}
Ticks == {"t1", "t2"}
Times == 0..MaxTime
PostIds == 1..MaxPosts
\* A status string the API does not know, for the isValidStatus branch.
BogusStatus == "archived"
Urls == {"https://given.example/p"}
Errors == {"operator note"}

VARIABLES
  now,        \* wall clock (new Date())
  posts,      \* the posts table: sequence of rows, row i has id i
  req,        \* per request slot: the handler's position and locals
  resp,       \* the API response sent last
  running,    \* the scheduler's single-flight flag
  tick,       \* per tick invocation: position and locals of scheduleDuePosts
  jobs,       \* the publishing queue: retained jobs in order of addition
  jobSeq,     \* number of queue.add calls so far; the next auto-generated job id
  run,        \* the worker's current publisher run
  ingests,    \* per post id: how often triggerAutoIngest started an ingest
  claimed,    \* per post id: claims made by the ticks in flight
  pendingIngest,  \* post ids whose started ingest has not yet read the post
  handlers,   \* job names the worker was started with a handler for
  vectors,    \* the content_vectors table: rows in order of insertion
  ing,        \* the ingest that is running: position and locals
  hist,       \* per source: text and stored chunks at its last returned ingest
  ingestLog,  \* what the ingest trigger's catch logged last
  overlap,    \* a second ingest started while ing is running: position and locals
  nowMs,      \* Date.now()
  gen,        \* the generation request in flight: position and locals
  generateTimestamps,  \* the limiter's Map: customerId -> admitted timestamps
  admitted,   \* every admission so far: <<customerId, timestamp>>
  postMetrics,  \* the post_metrics table: rows in order of insertion
  col,        \* the metrics collection that is running: position and locals
  calc        \* the call of a pure function made last: its input and result

ragVars == <<vectors, ing, hist, ingestLog, overlap>>
genVars == <<nowMs, gen, generateTimestamps, admitted>>
metricVars == <<postMetrics, col>>
others == <<handlers, ragVars, genVars, metricVars, calc>>

vars == <<now, posts, req, resp, running, tick, jobs, jobSeq, run, ingests, claimed,
          pendingIngest, handlers, vectors, ing, hist, ingestLog, overlap,
          nowMs, gen, generateTimestamps, admitted, postMetrics, col, calc>>

\* ------------------------------------------------------------ pure helpers
\* value.trim(), on the values with surrounding blanks that are sent.
Trim(v) == IF v = " c1 " THEN "c1"
           ELSE IF v = " 222 " THEN "222"
           ELSE IF v = " " THEN "" ELSE v

\* typeof value === 'string' && value.trim() ? value.trim() : null
asString(v) == IF v = NULL \/ Trim(v) = "" THEN NULL ELSE Trim(v)

isValidChannel(v) == v \in CHANNELS

isValidStatus(v) == v \in STATUSES

Coalesce(a, b) == IF a # NULL THEN a ELSE b

validatePostPayload(p) ==
  IF p.customerId = NULL \/ p.customerId = "" THEN "customerId is required"
  ELSE IF ~isValidChannel(p.channel) THEN "channel is invalid"
  ELSE IF ~isValidStatus(p.status) THEN "status is invalid"
  ELSE IF p.text = <<>> THEN "title is required"
  ELSE IF p.scheduledAt = NoTime THEN "scheduledAt is required"
  ELSE NULL

Exists(id) == id \in 1..Len(posts)

LookupByKeyOnly(customerId, key) ==
  {i \in 1..Len(posts) : posts[i].idempotencyKey = key}

\* SELECT * FROM posts WHERE customer_id = $1 AND idempotency_key = $2 LIMIT 1
getPostByCustomerAndIdempotencyKey(customerId, key) ==
  {i \in 1..Len(posts) :
     posts[i].customerId = customerId /\ posts[i].idempotencyKey = key}

\* idx_posts_customer_idempotency_key: unique where the key is not null.
UniqueKeyViolated(customerId, key) ==
  key # NULL /\ getPostByCustomerAndIdempotencyKey(customerId, key) # {}

Bump(n) == IF n < MaxIngest THEN n + 1 ELSE n

\* triggerAutoIngestForPublishedPost: starts an ingest only for a row read
\* back as published.
triggerAutoIngestForPublishedPost(id, status) ==
  IF status = "published"
  THEN /\ ingests' = [ingests EXCEPT ![id] = Bump(@)]
       /\ pendingIngest' = pendingIngest \cup {id}
  ELSE UNCHANGED <<ingests, pendingIngest>>

\* A request slot: pc is the handler's position, body the request body,
\* existing the row the handler read, at the timestamp it drew.
NoBody == [none |-> TRUE]
IdleReq == [pc |-> "idle", id |-> 0, body |-> NoBody, existing |-> NoBody,
            at |-> NoTime]

\* The response sent last: by which slot, for which route, status code, error
\* message and the id of the post in the body (0: none).
NoResp == [by |-> NULL, op |-> NULL, code |-> 0, msg |-> NULL, id |-> 0]

Respond(r, op, id, body, code, msg) ==
  /\ req' = [req EXCEPT ![r] = IdleReq]
  /\ resp' = [by |-> r, op |-> op, code |-> code, msg |-> msg, id |-> id]

Await(r, pc, op, id, body, existing) ==
  /\ req' = [req EXCEPT ![r] = [pc |-> pc, id |-> id, body |-> body,
                                existing |-> existing, at |-> now]]
  /\ UNCHANGED resp

Pending(pc) == Cardinality({r \in Reqs : req[r].pc = pc})

\* ---------------------------------------------------------- POST /api/posts
\* The request body: the fields of PostPayload the lifecycle depends on.
\* title and content of a payload, as the paragraphs of the ingest body; a
\* payload without them leaves the value given.
BodyText(body, default) == IF "text" \in DOMAIN body THEN body.text ELSE default

NewPost(body) ==
  [customerId     |-> body.customerId,
   channel        |-> body.channel,
   status         |-> Coalesce(body.status, "draft"),
   scheduledAt    |-> body.scheduledAt,
   publishedAt    |-> NoTime,
   publishedUrl   |-> NULL,
   errorMessage   |-> NULL,
   images         |-> body.images,
   text           |-> BodyText(body, <<>>),
   idempotencyKey |-> asString(body.idempotencyKey),
   updatedAt      |-> now]

\* INSERT, read back, trigger the ingest, 201.  A second row with the same
\* (customer, key) is refused by the unique index and the handler throws.
InsertPost(r, body) ==
  LET post == NewPost(body)
      id == Len(posts) + 1
  IN IF UniqueKeyViolated(post.customerId, post.idempotencyKey)
     THEN /\ Respond(r, "create", 0, body, 500, "duplicate key value")
          /\ UNCHANGED <<posts, ingests, pendingIngest>>
     ELSE /\ posts' = Append(posts, post)
          /\ triggerAutoIngestForPublishedPost(id, post.status)
          /\ Respond(r, "create", id, body, 201, NULL)

\* Build the post, validate, look the idempotency key up.
CreateBegin(r, body) ==
  /\ req[r].pc = "idle"
  /\ LET post == NewPost(body)
         found == getPostByCustomerAndIdempotencyKey(post.customerId, post.idempotencyKey)
     IN IF validatePostPayload(post) # NULL
        THEN /\ Respond(r, "create", 0, body, 400, validatePostPayload(post))
             /\ UNCHANGED <<posts, ingests, pendingIngest>>
        ELSE IF post.idempotencyKey # NULL /\ found # {}
        THEN /\ \E id \in found : Respond(r, "create", id, body, 200, NULL)
             /\ UNCHANGED <<posts, ingests, pendingIngest>>
        ELSE /\ Len(posts) + Pending("create_insert") < MaxPosts
             /\ IF post.idempotencyKey # NULL
                THEN /\ Await(r, "create_insert", "create", 0, body, NoBody)
                     /\ UNCHANGED <<posts, ingests, pendingIngest>>
                ELSE InsertPost(r, body)
  /\ UNCHANGED <<now, running, tick, jobs, jobSeq, run, claimed, others>>

CreateInsert(r) ==
  /\ req[r].pc = "create_insert"
  /\ InsertPost(r, req[r].body)
  /\ UNCHANGED <<now, running, tick, jobs, jobSeq, run, claimed, others>>

\* ------------------------------------------------------- PUT /api/posts/:id
\* { ...existing, ...payload }: a field absent from the body keeps the value read.
MergePayload(existing, body, at) ==
  [existing EXCEPT !.status = Coalesce(body.status, existing.status),
                   !.text = BodyText(body, existing.text),
                   !.updatedAt = at]

\* Read the row, merge the body over it, validate.
PutBegin(r, id, body) ==
  /\ req[r].pc = "idle"
  /\ IF ~Exists(id)
     THEN Respond(r, "put", 0, body, 404, "Post not found")
     ELSE IF validatePostPayload(MergePayload(posts[id], body, now)) # NULL
     THEN Respond(r, "put", 0, body, 400,
                  validatePostPayload(MergePayload(posts[id], body, now)))
     ELSE Await(r, "put_write", "put", id, body, posts[id])
  /\ UNCHANGED <<now, posts, running, tick, jobs, jobSeq, run, ingests, pendingIngest,
               claimed, others>>

\* UPDATE every column from the merged row, read back, trigger the ingest, 200.
PutWrite(r) ==
  /\ req[r].pc = "put_write"
  /\ LET id == req[r].id
         updated == MergePayload(req[r].existing, req[r].body, req[r].at)
     IN /\ posts' = [posts EXCEPT ![id] = updated]
        /\ triggerAutoIngestForPublishedPost(id, updated.status)
        /\ Respond(r, "put", id, req[r].body, 200, NULL)
  /\ UNCHANGED <<now, running, tick, jobs, jobSeq, run, claimed, others>>

\* ---------------------------------------------- PATCH /api/posts/:id/status
\* Read the row, check the target against the transition table.  Of the row
\* read, the write uses publishedAt and publishedUrl only.
PatchBegin(r, id, body) ==
  /\ req[r].pc = "idle"
  /\ IF ~Exists(id)
     THEN Respond(r, "patch", 0, body, 404, "Post not found")
     ELSE IF ~isValidStatus(body.status)
     THEN Respond(r, "patch", 0, body, 400, "status is invalid")
     ELSE IF body.status \notin ALLOWED_STATUS_TRANSITIONS[posts[id].status]
     THEN Respond(r, "patch", id, body, 400, "Invalid status transition")
     ELSE Await(r, "patch_write", "patch", id, body,
                [publishedAt |-> posts[id].publishedAt,
                 publishedUrl |-> posts[id].publishedUrl])
  /\ UNCHANGED <<now, posts, running, tick, jobs, jobSeq, run, ingests, pendingIngest,
               claimed, others>>

\* UPDATE status, published_at, published_url, error_message, updated_at.
PatchWrite(r) ==
  /\ req[r].pc = "patch_write"
  /\ LET id == req[r].id
         existing == req[r].existing
         body == req[r].body
         nextStatus == body.status
         publishedAt == IF nextStatus = "published" THEN req[r].at
                        ELSE existing.publishedAt
         publishedUrl == Coalesce(asString(body.publishedUrl), existing.publishedUrl)
         errorMessage == asString(body.errorMessage)
     IN /\ posts' = [posts EXCEPT ![id] =
                       [@ EXCEPT !.status = nextStatus,
                                 !.publishedAt = publishedAt,
                                 !.publishedUrl = publishedUrl,
                                 !.errorMessage = errorMessage,
                                 !.updatedAt = req[r].at]]
        /\ triggerAutoIngestForPublishedPost(id, nextStatus)
        /\ Respond(r, "patch", id, body, 200, NULL)
  /\ UNCHANGED <<now, running, tick, jobs, jobSeq, run, claimed, others>>

\* ------------------------------------------------------------------- clock
AdvanceClock ==
  /\ now < MaxTime
  /\ now' = now + 1
  /\ UNCHANGED <<posts, req, resp, running, tick, jobs, jobSeq, run, ingests,
               pendingIngest, claimed, others>>

\* --------------------------------------------------------- publishing queue
\* queue.add with a jobId that a retained job already has is ignored by the
\* queue; completed and failed jobs are retained (removeOnComplete/Fail: 100).
\* remote counts the runs of the job whose publish call the channel accepted.
AutoJobId(postId) == <<"auto", jobSeq>>

\* scheduleDuePosts: jobId: `publish-post:${post.id}`
JobId(postId) == <<"publish-post", postId>>

HasJob(id) == \E i \in 1..Len(jobs) : jobs[i].id = id

enqueuePublishingJob(name, postId, channel, id) ==
  /\ jobs' = IF HasJob(id) THEN jobs
             ELSE Append(jobs, [id |-> id, name |-> name, postId |-> postId,
                                channel |-> channel, state |-> "waiting",
                                attemptsMade |-> 0, remote |-> 0])
  /\ jobSeq' = IF jobSeq < MaxAdds THEN jobSeq + 1 ELSE jobSeq

\* ---------------------------------------------------------------- scheduler
\* A tick invocation: res is the count its last call returned (-1: none yet),
\* guarded whether that call returned at the single-flight guard, threw
\* whether it was rejected, added the number of jobs its queue.add calls
\* added to the queue.
IdleTick == [pc |-> "idle", due |-> <<>>, idx |-> 0, nowIso |-> NoTime,
             res |-> 0 - 1, guarded |-> FALSE, threw |-> FALSE, added |-> 0]

InFlight == {t \in Ticks : tick[t].pc # "idle"}

IsDue(i, nowIso) ==
  posts[i].status = "approved" /\ posts[i].scheduledAt <= nowIso

\* The rows the due-post query can return: ORDER BY scheduled_at ASC (ties in
\* any order), LIMIT batchSize.
fetchDuePosts(nowIso, batchSize) ==
  LET due == {i \in 1..Len(posts) : IsDue(i, nowIso)}
      n == Cardinality(due)
      m == IF n < batchSize THEN n ELSE batchSize
      sorted == {f \in [1..n -> due] :
                   /\ \A i, j \in 1..n : i # j => f[i] # f[j]
                   /\ \A i, j \in 1..n :
                        i < j => posts[f[i]].scheduledAt <= posts[f[j]].scheduledAt}
  IN {SubSeq(f, 1, m) : f \in sorted}

\* UPDATE posts SET status = 'publishing', updated_at = $2 WHERE id = $1
markPostPublishing(rows, postId, nowIso) ==
  [rows EXCEPT ![postId] = [@ EXCEPT !.status = "publishing", !.updatedAt = nowIso]]

\* tick(): the call returns 0 at once when a tick is running; otherwise it
\* raises the flag and scheduleDuePosts runs its due-post query.
NeverRunning == FALSE

\* if (running) return 0;
AlreadyRunning == running

runningAsRaised == TRUE

\* finally { running = false; }
runningAfterFinally == FALSE

TickStart(t, batchSize) ==
  /\ tick[t].pc = "idle"
  /\ IF AlreadyRunning
     THEN /\ tick' = [tick EXCEPT ![t] = [IdleTick EXCEPT !.res = 0,
                                                          !.guarded = TRUE]]
          /\ UNCHANGED <<running, claimed>>
     ELSE \E due \in fetchDuePosts(now, batchSize) :
            /\ claimed' = IF InFlight = {} THEN [p \in PostIds |-> {}] ELSE claimed
            /\ IF due = <<>>
               THEN /\ tick' = [tick EXCEPT ![t] = [IdleTick EXCEPT !.res = 0]]
                    /\ UNCHANGED running
               ELSE /\ tick' = [tick EXCEPT ![t] =
                                  [IdleTick EXCEPT !.pc = "loop", !.due = due,
                                                   !.idx = 1, !.nowIso = now]]
                    /\ running' = TRUE
  /\ UNCHANGED <<now, posts, req, resp, jobs, jobSeq, run, ingests, pendingIngest, others>>

\* One round of the loop: mark the row publishing, enqueue its publish-post
\* job; after the last row the tick returns the number of rows and lowers the
\* flag.
TickMark(t) ==
  /\ tick[t].pc = "loop"
  /\ LET postId == tick[t].due[tick[t].idx]
         last == tick[t].idx = Len(tick[t].due)
         added == tick[t].added + (IF HasJob(JobId(postId)) THEN 0 ELSE 1)
     IN /\ posts' = markPostPublishing(posts, postId, tick[t].nowIso)
        /\ enqueuePublishingJob("publish-post", postId, posts[postId].channel,
                                JobId(postId))
        /\ claimed' = [claimed EXCEPT ![postId] = @ \cup {t}]
        /\ IF last
           THEN /\ tick' = [tick EXCEPT ![t] =
                              [IdleTick EXCEPT !.res = Len(tick[t].due),
                                               !.added = added]]
                /\ running' = runningAfterFinally
           ELSE /\ tick' = [tick EXCEPT ![t].idx = @ + 1, ![t].added = added]
                /\ UNCHANGED running
  /\ UNCHANGED <<now, req, resp, run, ingests, pendingIngest, others>>

\* The due-post query throws: scheduleDuePosts rejects, the finally block of
\* tick runs and tick rejects.
TickFetchThrows(t) ==
  /\ tick[t].pc = "idle"
  /\ ~AlreadyRunning
  /\ tick' = [tick EXCEPT ![t] = [IdleTick EXCEPT !.threw = TRUE]]
  /\ running' = runningAfterFinally
  /\ UNCHANGED <<now, posts, req, resp, jobs, jobSeq, run, ingests, pendingIngest,
                 claimed, others>>

\* A round of the loop throws, at markPostPublishing (step "mark") or, after
\* the row was written, at enqueuePublishPost (step "enqueue"): the rows left
\* in the batch are not visited, the finally block runs and tick rejects.
TickLoopThrows(t, step) ==
  /\ tick[t].pc = "loop"
  /\ LET postId == tick[t].due[tick[t].idx]
     IN IF step = "mark"
        THEN UNCHANGED <<posts, claimed>>
        ELSE /\ posts' = markPostPublishing(posts, postId, tick[t].nowIso)
             /\ claimed' = [claimed EXCEPT ![postId] = @ \cup {t}]
  /\ tick' = [tick EXCEPT ![t] = [IdleTick EXCEPT !.threw = TRUE]]
  /\ running' = runningAfterFinally
  /\ UNCHANGED <<now, req, resp, jobs, jobSeq, run, ingests, pendingIngest, others>>

\* ------------------------------------------------------- channel publishers
TwoPhase == {"instagram", "threads"}
\* The manual channel has no adapter.
Adapters == {"instagram", "threads", "nextjs-blog"}

\* buildInstagramMediaUrl / buildThreadsUrl / the blog's canonical URL.
PublishedUrl(channel) ==
  CASE channel = "instagram" -> "https://www.instagram.com/p/m1/"
    [] channel = "threads"   -> "https://www.threads.net/t/m1"
    [] OTHER                 -> "https://blog.example/posts/1"

\* toErrorMessage(error): the message of the Error the failing call threw.
toErrorMessage(channel, step) ==
  CASE step = "create" -> "media create failed (500)"
    [] step = "publish" /\ channel = "nextjs-blog" -> "nextjs publish failed (500)"
    [] OTHER -> "media publish failed (500)"

\* UPDATE posts SET status = 'published', published_url = $2, published_at = $3,
\*                  updated_at = $3, error_message = NULL WHERE id = $1
markPostPublished(rows, postId, publishedUrl, publishedAt) ==
  [rows EXCEPT ![postId] = [@ EXCEPT !.status = "published",
                                     !.publishedUrl = publishedUrl,
                                     !.publishedAt = publishedAt,
                                     !.updatedAt = publishedAt,
                                     !.errorMessage = NULL]]

markPostFailedDroppingMessage(rows, postId, errorMessage, at) ==
  [rows EXCEPT ![postId] = [@ EXCEPT !.status = "failed",
                                     !.errorMessage = NULL,
                                     !.updatedAt = at]]

\* UPDATE posts SET status = 'failed', error_message = $2, updated_at = $3
\* WHERE id = $1
markPostFailed(rows, postId, errorMessage, at) ==
  [rows EXCEPT ![postId] = [@ EXCEPT !.status = "failed",
                                     !.errorMessage = errorMessage,
                                     !.updatedAt = at]]

IdleRun == [pc |-> "idle", job |-> 0, postId |-> 0, channel |-> NULL,
            res |-> NULL, url |-> NULL, err |-> NULL]

\* The attempt threw: the queue retries the job until `attempts` are made.
FailAttempt(j) ==
  jobs' = [jobs EXCEPT ![j] =
             [@ EXCEPT !.attemptsMade = @ + 1,
                       !.state = IF jobs[j].attemptsMade + 1 >= attempts
                                 THEN "failed" ELSE "waiting"]]

\* The run ends by throwing err to the worker.
Thrown(j, err) ==
  run' = [IdleRun EXCEPT !.res = "error", !.err = err]

\* What stops a run before its try block: the thrown message, or NULL.
\* cred is what the account lookup (customer column, environment, the /me
\* call) or the blog's publish-URL resolution yields for this run.
LoadError(j, cred) ==
  LET postId == jobs[j].postId
      channel == jobs[j].channel
  IN IF ~Exists(postId) THEN "post not found"
     ELSE IF posts[postId].channel # channel THEN "post is not of this channel"
     ELSE IF channel = "instagram" /\ posts[postId].images = <<>>
     THEN "instagram post has no image"
     ELSE IF cred = "missing" THEN "account is not configured"
     ELSE NULL

\* const handler = handlers[job.name]; if (!handler) throw new Error(...)
HasHandler(name) == name \in handlers

\* A worker takes a waiting job; the publish-post handler runs the adapter of
\* the job's channel up to the start of its try block.
PublishBegin(j, cred) ==
  /\ run.pc = "idle"
  /\ j \in 1..Len(jobs)
  /\ jobs[j].state = "waiting"
  /\ IF ~HasHandler(jobs[j].name)
     THEN /\ FailAttempt(j)
          /\ Thrown(j, "No worker handler registered")
     ELSE IF jobs[j].channel \notin Adapters
     THEN /\ FailAttempt(j)
          /\ Thrown(j, "no publisher for channel")
     ELSE IF LoadError(j, cred) # NULL
     THEN /\ FailAttempt(j)
          /\ Thrown(j, LoadError(j, cred))
     ELSE /\ jobs' = [jobs EXCEPT ![j].state = "active"]
          /\ run' = [IdleRun EXCEPT !.pc = "loaded", !.job = j,
                                    !.postId = jobs[j].postId,
                                    !.channel = jobs[j].channel]
  /\ UNCHANGED <<now, posts, req, resp, running, tick, jobSeq, ingests, pendingIngest,
               claimed, others>>

\* create...MediaContainer: the first call of a two-phase channel.
PublishCreate(ok) ==
  /\ run.pc = "loaded"
  /\ run.channel \in TwoPhase
  /\ IF ok
     THEN /\ run' = [run EXCEPT !.pc = "created"]
          /\ UNCHANGED <<posts, jobs>>
     ELSE /\ posts' = markPostFailed(posts, run.postId,
                                     toErrorMessage(run.channel, "create"), now)
          /\ FailAttempt(run.job)
          /\ Thrown(run.job, toErrorMessage(run.channel, "create"))
  /\ UNCHANGED <<now, req, resp, running, tick, jobSeq, ingests, pendingIngest, claimed,
               others>>

\* publish...Container (two-phase) or the blog's single POST, then
\* markPostPublished and the result; any throw lands in the catch block.
PublishFinish(ok) ==
  /\ \/ run.pc = "created"
     \/ run.pc = "loaded" /\ run.channel \notin TwoPhase
  /\ IF ok
     THEN /\ posts' = markPostPublished(posts, run.postId,
                                        PublishedUrl(run.channel), now)
          /\ jobs' = [jobs EXCEPT ![run.job] =
                        [@ EXCEPT !.state = "completed", !.remote = @ + 1]]
          /\ run' = [IdleRun EXCEPT !.res = "ok", !.url = PublishedUrl(run.channel)]
     ELSE /\ posts' = markPostFailed(posts, run.postId,
                                     toErrorMessage(run.channel, "publish"), now)
          /\ FailAttempt(run.job)
          /\ Thrown(run.job, toErrorMessage(run.channel, "publish"))
  /\ UNCHANGED <<now, req, resp, running, tick, jobSeq, ingests, pendingIngest, claimed,
               others>>

\* The publish call succeeds and markPostPublished throws: the catch block
\* runs markPostFailed, which writes the row (failedOk) or throws in its turn,
\* and the error reaches the worker.
PublishRecordThrows(failedOk) ==
  /\ \/ run.pc = "created"
     \/ run.pc = "loaded" /\ run.channel \notin TwoPhase
  /\ posts' = IF failedOk
              THEN markPostFailed(posts, run.postId, "database write failed", now)
              ELSE posts
  /\ jobs' = [jobs EXCEPT ![run.job] =
                [@ EXCEPT !.remote = @ + 1,
                          !.attemptsMade = @ + 1,
                          !.state = IF jobs[run.job].attemptsMade + 1 >= attempts
                                    THEN "failed" ELSE "waiting"]]
  /\ Thrown(run.job, "database write failed")
  /\ UNCHANGED <<now, req, resp, running, tick, jobSeq, ingests, pendingIngest, claimed,
               others>>

\* The channel never answers a call of the run: fetch is awaited without a
\* signal or a timer, and the run stays where it is.
PublishNeverResponds ==
  /\ run.pc \in {"loaded", "created"}
  /\ run' = [run EXCEPT !.pc = "hung"]
  /\ UNCHANGED <<now, posts, req, resp, running, tick, jobs, jobSeq, ingests,
                 pendingIngest, claimed, others>>

\* ------------------------------------------------------------------ ingest
\* CHUNK_MAX_LENGTH
CHUNK_MAX_LENGTH == 500

\* A text is the sequence of the paragraphs that split(/\n{2,}/) and trim
\* leave of it; a paragraph <<c, n>> is the character c repeated n times
\* (n = 0: a part that trims to nothing).
ParLen(paragraph) == paragraph[2]

NonEmptyPar(paragraph) == ParLen(paragraph) > 0

\* The length of paragraphs joined with "\n\n".
RECURSIVE JoinedLength(_)
JoinedLength(paragraphs) ==
  IF paragraphs = <<>> THEN 0
  ELSE IF Len(paragraphs) = 1 THEN ParLen(paragraphs[1])
  ELSE ParLen(paragraphs[1]) + 2 + JoinedLength(Tail(paragraphs))

NoSlices(paragraph, maxLength) == << <<paragraph>> >>

\* for (index = 0; index < paragraph.length; index += maxLength)
\*   chunks.push(paragraph.slice(index, index + maxLength))
RECURSIVE Slices(_, _)
Slices(paragraph, maxLength) ==
  IF ParLen(paragraph) <= maxLength THEN << <<paragraph>> >>
  ELSE << << <<paragraph[1], maxLength>> >> >>
         \o Slices(<<paragraph[1], ParLen(paragraph) - maxLength>>, maxLength)

\* The loop of chunkText over the paragraphs left; a chunk is the sequence of
\* the paragraphs joined in it.
RECURSIVE ChunkLoop(_, _, _, _)
ChunkLoop(paragraphs, current, chunks, maxLength) ==
  IF paragraphs = <<>>
  THEN IF current # <<>> THEN Append(chunks, current) ELSE chunks
  ELSE LET paragraph == Head(paragraphs)
           next == Append(current, paragraph)
           flushed == IF current # <<>> THEN Append(chunks, current) ELSE chunks
       IN IF JoinedLength(next) <= maxLength
          THEN ChunkLoop(Tail(paragraphs), next, chunks, maxLength)
          ELSE IF ParLen(paragraph) <= maxLength
          THEN ChunkLoop(Tail(paragraphs), <<paragraph>>, flushed, maxLength)
          ELSE ChunkLoop(Tail(paragraphs), <<>>,
                         flushed \o Slices(paragraph, maxLength), maxLength)

chunkText(text, maxLength) ==
  ChunkLoop(SelectSeq(text, NonEmptyPar), <<>>, <<>>, maxLength)

\* chunkText(text, maxLength), called on its own.
ChunkCall(text, maxLength) ==
  /\ calc' = [op |-> "chunk", in |-> text, max |-> maxLength,
              out |-> chunkText(text, maxLength)]
  /\ UNCHANGED <<now, posts, req, resp, running, tick, jobs, jobSeq, run, ingests,
                 claimed, pendingIngest, handlers, ragVars, genVars, metricVars>>

\* The key of a source in content_vectors.
SourceOf(customerId, sourceType, sourceId) ==
  [customerId |-> customerId, sourceType |-> sourceType, sourceId |-> sourceId]

DocIds == {"d1"}

Sources ==
  {SourceOf(c, "past-content", ToString(p)) : c \in Customers, p \in PostIds}
    \cup {SourceOf(c, "project-doc", d) : c \in Customers, d \in DocIds}

IsOfSource(row, source) ==
  /\ row.customerId = source.customerId
  /\ row.sourceType = source.sourceType
  /\ row.sourceId = source.sourceId

insertVector(tbl, row) == Append(tbl, row)

\* INSERT INTO content_vectors ... ON CONFLICT (customer_id, source_type,
\* source_id, chunk_index) DO UPDATE SET text_content, embedding, ...
upsertVector(tbl, row) ==
  LET same == {i \in 1..Len(tbl) :
                 /\ IsOfSource(tbl[i], row)
                 /\ tbl[i].chunkIndex = row.chunkIndex}
  IN IF same = {} THEN Append(tbl, row)
     ELSE [i \in 1..Len(tbl) |->
             IF i \in same THEN [row EXCEPT !.performance = tbl[i].performance]
             ELSE tbl[i]]

\* DELETE FROM content_vectors WHERE customer_id = $1 AND source_type = $2
\* AND source_id = $3 AND chunk_index >= $4
deleteOrphanChunks(tbl, source, chunkCount) ==
  SelectSeq(tbl, LAMBDA row : ~(IsOfSource(row, source) /\ row.chunkIndex >= chunkCount))

\* What is stored of a source: its rows, and their (index, content) pairs.
RowsOf(tbl, source) == SelectSeq(tbl, LAMBDA row : IsOfSource(row, source))

StoredChunks(tbl, source) ==
  {<<tbl[i].chunkIndex, tbl[i].textContent>> :
     i \in {k \in 1..Len(tbl) : IsOfSource(tbl[k], source)}}

\* The running ingest: by is the caller ("trigger": the fire-and-forget
\* trigger of a posts route, "doc": the project-doc route), res what its last
\* run returned ("true", "false") or "error" when it threw.
NoSource == SourceOf(NULL, NULL, NULL)
IdleIngest == [pc |-> "idle", by |-> NULL, source |-> NoSource, text |-> <<>>,
               chunks |-> <<>>, embeddings |-> <<>>, idx |-> 0, res |-> NULL,
               readStatus |-> NULL]

\* seen: an ingest of the source returned and none has thrown since; twice:
\* the ingest before it had returned too, with the same text.
NoHist == [seen |-> FALSE, twice |-> FALSE, text |-> <<>>, chunks |-> {}, count |-> 0]

\* An ingest returned: remember its text and what is stored of its source.
Returned(by, source, text, res, tbl) ==
  /\ ing' = [IdleIngest EXCEPT !.by = by, !.source = source, !.text = text,
                               !.res = res]
  /\ hist' = [hist EXCEPT ![source] =
                [seen |-> TRUE,
                 twice |-> hist[source].seen /\ hist[source].text = text,
                 text |-> text,
                 chunks |-> StoredChunks(tbl, source),
                 count |-> Len(RowsOf(tbl, source))]]

\* Nothing logged yet.
NoLog == [post |-> NULL, message |-> NULL]

propagateIngestFailure(postId, message) ==
  /\ ingestLog' = ingestLog
  /\ resp' = [by |-> "trigger", op |-> "ingest", code |-> 500, msg |-> message,
              id |-> 0]

\* .catch((error) => console.error(`[ingest] failed for post=...`))
catchIngestFailure(postId, message) ==
  /\ ingestLog' = [post |-> postId, message |-> message]
  /\ UNCHANGED resp

\* The ingest threw.  The trigger of a posts route catches and logs; the
\* project-doc route awaits the ingest without a catch and sends no response.
Failed(message) ==
  /\ ing' = [IdleIngest EXCEPT !.by = ing.by, !.source = ing.source,
                               !.text = ing.text, !.res = "error"]
  /\ IF ing.by = "trigger"
     THEN catchIngestFailure(ing.source.sourceId, message)
     ELSE UNCHANGED <<ingestLog, resp>>
  /\ hist' = IF ing.source \in Sources THEN [hist EXCEPT ![ing.source] = NoHist]
             ELSE hist
  /\ UNCHANGED vectors

\* ingestTextSourceToRag up to its first await: chunk the text; no chunk,
\* return false.
BeginTextIngest(by, source, text, readStatus) ==
  LET chunks == chunkText(text, CHUNK_MAX_LENGTH)
  IN IF chunks = <<>>
     THEN Returned(by, source, text, "false", vectors)
     ELSE /\ ing' = [IdleIngest EXCEPT !.pc = "embed", !.by = by,
                                       !.source = source, !.text = text,
                                       !.chunks = chunks,
                                       !.readStatus = readStatus]
          /\ UNCHANGED hist

\* getPublishedPost: return row.status === 'published' ? row : null
getPublishedPost(p) == Exists(p) /\ posts[p].status = "published"

\* ingestPublishedPostToRag: getPublishedPost returns the row only when its
\* status is published.
IngestPostStart(p) ==
  /\ ing.pc = "idle"
  /\ p \in pendingIngest
  /\ pendingIngest' = pendingIngest \ {p}
  /\ IF ~getPublishedPost(p)
     THEN /\ ing' = [IdleIngest EXCEPT !.by = "trigger", !.res = "false",
                       !.source = SourceOf(NULL, "past-content", ToString(p))]
          /\ UNCHANGED hist
     ELSE BeginTextIngest("trigger",
                          SourceOf(posts[p].customerId, "past-content", ToString(p)),
                          posts[p].text, posts[p].status)
  /\ UNCHANGED <<now, posts, req, resp, running, tick, jobs, jobSeq, run, ingests,
                 claimed, handlers, vectors, ingestLog, overlap, genVars, metricVars,
                 calc>>

\* POST /api/content/ingest/project-doc
IngestDocStart(body) ==
  /\ ing.pc = "idle"
  /\ IF asString(body.customerId) = NULL
     THEN /\ resp' = [by |-> "doc", op |-> "ingest-doc", code |-> 400,
                      msg |-> "customerId is required", id |-> 0]
          /\ UNCHANGED <<ing, hist>>
     ELSE IF asString(body.sourceId) = NULL
     THEN /\ resp' = [by |-> "doc", op |-> "ingest-doc", code |-> 400,
                      msg |-> "sourceId is required", id |-> 0]
          /\ UNCHANGED <<ing, hist>>
     ELSE IF chunkText(body.text, CHUNK_MAX_LENGTH) = <<>>
     THEN /\ resp' = [by |-> "doc", op |-> "ingest-doc", code |-> 400,
                      msg |-> "textContent is required", id |-> 0]
          /\ UNCHANGED <<ing, hist>>
     ELSE /\ BeginTextIngest("doc",
                             SourceOf(body.customerId, "project-doc", body.sourceId),
                             body.text, NULL)
          /\ UNCHANGED resp
  /\ UNCHANGED <<now, posts, req, running, tick, jobs, jobSeq, run, ingests, claimed,
                 pendingIngest, handlers, vectors, ingestLog, overlap, genVars,
                 metricVars, calc>>

EmbedOutcomes == {"no-key", "ok", "not-ok", "thrown"}

\* embedTexts: without an API key every embedding is null; a response that is
\* not ok, or a failing fetch, throws.
IngestEmbed(outcome) ==
  /\ ing.pc = "embed"
  /\ IF outcome = "not-ok" THEN Failed("Embedding request failed (500)")
     ELSE IF outcome = "thrown" THEN Failed("fetch failed")
     ELSE /\ ing' = [ing EXCEPT !.pc = "upsert", !.idx = 0,
                       !.embeddings = [i \in 1..Len(ing.chunks) |->
                                         IF outcome = "ok" THEN "vector" ELSE NULL]]
          /\ UNCHANGED <<hist, vectors, ingestLog, resp>>
  /\ UNCHANGED <<now, posts, req, running, tick, jobs, jobSeq, run, ingests, claimed,
                 pendingIngest, handlers, overlap, genVars, metricVars, calc>>

\* One round of the loop over the chunks: upsertVector of chunk idx.
IngestUpsert(ok) ==
  /\ ing.pc = "upsert"
  /\ IF ~ok THEN Failed("storage error")
     ELSE /\ vectors' = upsertVector(vectors,
                          [customerId |-> ing.source.customerId,
                           sourceType |-> ing.source.sourceType,
                           sourceId |-> ing.source.sourceId,
                           chunkIndex |-> ing.idx,
                           textContent |-> ing.chunks[ing.idx + 1],
                           embedding |-> ing.embeddings[ing.idx + 1],
                           performance |-> NULL])
          /\ ing' = IF ing.idx + 1 < Len(ing.chunks)
                    THEN [ing EXCEPT !.idx = @ + 1]
                    ELSE [ing EXCEPT !.pc = "delete"]
          /\ UNCHANGED <<hist, ingestLog, resp>>
  /\ UNCHANGED <<now, posts, req, running, tick, jobs, jobSeq, run, ingests, claimed,
                 pendingIngest, handlers, overlap, genVars, metricVars, calc>>

\* deleteOrphanChunks, return true; the project-doc route then answers 200.
IngestDelete(ok) ==
  /\ ing.pc = "delete"
  /\ IF ~ok THEN Failed("storage error")
     ELSE /\ vectors' = deleteOrphanChunks(vectors, ing.source, Len(ing.chunks))
          /\ Returned(ing.by, ing.source, ing.text, "true",
                      deleteOrphanChunks(vectors, ing.source, Len(ing.chunks)))
          /\ resp' = IF ing.by = "doc"
                     THEN [by |-> "doc", op |-> "ingest-doc", code |-> 200,
                           msg |-> NULL, id |-> 0]
                     ELSE resp
          /\ UNCHANGED ingestLog
  /\ UNCHANGED <<now, posts, req, running, tick, jobs, jobSeq, run, ingests, claimed,
                 pendingIngest, handlers, overlap, genVars, metricVars, calc>>

\* A second call of ingestTextSourceToRag that starts while the first is
\* between two of its awaits: nothing in the routes, in the trigger or in the
\* function orders two ingests.  Its steps are the steps of the first, on its
\* own locals; hist keeps recording the ingests that ran in ing only.
OverlapReturned(res) ==
  overlap' = [IdleIngest EXCEPT !.by = overlap.by, !.source = overlap.source,
                                !.text = overlap.text, !.res = res]

\* POST /api/content/ingest/project-doc, received while an ingest is running.
OverlapDocStart(body) ==
  /\ ing.pc # "idle"
  /\ overlap.pc = "idle"
  /\ IF asString(body.customerId) = NULL
     THEN /\ resp' = [by |-> "doc", op |-> "ingest-doc", code |-> 400,
                      msg |-> "customerId is required", id |-> 0]
          /\ UNCHANGED overlap
     ELSE IF asString(body.sourceId) = NULL
     THEN /\ resp' = [by |-> "doc", op |-> "ingest-doc", code |-> 400,
                      msg |-> "sourceId is required", id |-> 0]
          /\ UNCHANGED overlap
     ELSE IF chunkText(body.text, CHUNK_MAX_LENGTH) = <<>>
     THEN /\ resp' = [by |-> "doc", op |-> "ingest-doc", code |-> 400,
                      msg |-> "textContent is required", id |-> 0]
          /\ UNCHANGED overlap
     ELSE /\ overlap' = [IdleIngest EXCEPT
                           !.pc = "embed", !.by = "doc",
                           !.source = SourceOf(body.customerId, "project-doc",
                                               body.sourceId),
                           !.text = body.text,
                           !.chunks = chunkText(body.text, CHUNK_MAX_LENGTH)]
          /\ UNCHANGED resp
  /\ UNCHANGED <<now, posts, req, running, tick, jobs, jobSeq, run, ingests, claimed,
                 pendingIngest, handlers, vectors, ing, hist, ingestLog, genVars,
                 metricVars, calc>>

OverlapEmbed(outcome) ==
  /\ overlap.pc = "embed"
  /\ IF outcome \in {"not-ok", "thrown"} THEN OverlapReturned("error")
     ELSE overlap' = [overlap EXCEPT !.pc = "upsert", !.idx = 0,
                        !.embeddings = [i \in 1..Len(overlap.chunks) |->
                                          IF outcome = "ok" THEN "vector" ELSE NULL]]
  /\ UNCHANGED <<now, posts, req, resp, running, tick, jobs, jobSeq, run, ingests,
                 claimed, pendingIngest, handlers, vectors, ing, hist, ingestLog,
                 genVars, metricVars, calc>>

OverlapUpsert(ok) ==
  /\ overlap.pc = "upsert"
  /\ IF ~ok THEN OverlapReturned("error") /\ UNCHANGED vectors
     ELSE /\ vectors' = upsertVector(vectors,
                          [customerId |-> overlap.source.customerId,
                           sourceType |-> overlap.source.sourceType,
                           sourceId |-> overlap.source.sourceId,
                           chunkIndex |-> overlap.idx,
                           textContent |-> overlap.chunks[overlap.idx + 1],
                           embedding |-> overlap.embeddings[overlap.idx + 1],
                           performance |-> NULL])
          /\ overlap' = IF overlap.idx + 1 < Len(overlap.chunks)
                        THEN [overlap EXCEPT !.idx = @ + 1]
                        ELSE [overlap EXCEPT !.pc = "delete"]
  /\ UNCHANGED <<now, posts, req, resp, running, tick, jobs, jobSeq, run, ingests,
                 claimed, pendingIngest, handlers, ing, hist, ingestLog, genVars,
                 metricVars, calc>>

OverlapDelete(ok) ==
  /\ overlap.pc = "delete"
  /\ IF ~ok THEN OverlapReturned("error") /\ UNCHANGED <<vectors, resp>>
     ELSE /\ vectors' = deleteOrphanChunks(vectors, overlap.source,
                                           Len(overlap.chunks))
          /\ OverlapReturned("true")
          /\ resp' = [by |-> "doc", op |-> "ingest-doc", code |-> 200,
                      msg |-> NULL, id |-> 0]
  /\ UNCHANGED <<now, posts, req, running, tick, jobs, jobSeq, run, ingests, claimed,
                 pendingIngest, handlers, ing, hist, ingestLog, genVars, metricVars,
                 calc>>

\* ------------------------------------------------------- metrics collector
\* Math.round(n * percent / 100), n and percent not negative.
RoundPercent(n, percent) == (n * percent + 50) \div 100

Max(a, b) == IF a >= b THEN a ELSE b
Min(a, b) == IF a <= b THEN a ELSE b

inferSyntheticMetrics(contentLength, tagCount) ==
  LET impressions == Max(100, contentLength * 2 + tagCount * 35)
      likes == Max(3, RoundPercent(impressions, 6))
  IN [impressions |-> impressions,
      likes       |-> likes,
      comments    |-> Max(0, RoundPercent(likes, 16)),
      shares      |-> Max(0, RoundPercent(likes, 8)),
      saves       |-> Max(0, RoundPercent(likes, 11)),
      clicks      |-> Max(0, RoundPercent(impressions, 3))]

scoreMetric(metric) ==
  metric.likes * 1 + metric.comments * 3 + metric.shares * 4 + metric.saves * 2
    + metric.clicks * 1

classifyAbove(metric) ==
  IF scoreMetric(metric) > 120 THEN "high"
  ELSE IF scoreMetric(metric) > 40 THEN "medium"
  ELSE "low"

classifyPerformance(metric) ==
  IF scoreMetric(metric) >= 120 THEN "high"
  ELSE IF scoreMetric(metric) >= 40 THEN "medium"
  ELSE "low"

\* SELECT ... FROM posts WHERE id = $1 AND status = 'published' LIMIT 1
getPublishedPostById(p) == Exists(p) /\ posts[p].status = "published"

updateEveryVector(tbl, postId, performance) ==
  [i \in 1..Len(tbl) |-> [tbl[i] EXCEPT !.performance = performance]]

\* UPDATE content_vectors SET performance = $1
\* WHERE source_type = 'past-content' AND source_id = $2
updateVectorPerformanceForPost(tbl, postId, performance) ==
  [i \in 1..Len(tbl) |->
     IF tbl[i].sourceType = "past-content" /\ tbl[i].sourceId = ToString(postId)
     THEN [tbl[i] EXCEPT !.performance = performance]
     ELSE tbl[i]]

\* The collection that is running: queue holds the rows of collectRecentMetrics
\* not yet visited, res what the last collectMetricsForPost returned, inserts
\* and updates the statements it has run.
NoMetric == [impressions |-> 0, likes |-> 0, comments |-> 0, shares |-> 0,
             saves |-> 0, clicks |-> 0]
IdleCollect == [pc |-> "idle", queue |-> <<>>, postId |-> 0, channel |-> NULL,
                metric |-> NoMetric, res |-> NULL, collected |-> 0,
                inserts |-> 0, updates |-> 0]

\* ORDER BY published_at DESC, updated_at DESC: p may come before q.
MayPrecede(p, q) ==
  LET a == posts[p].publishedAt
      b == posts[q].publishedAt
  IN IF a = b THEN posts[p].updatedAt >= posts[q].updatedAt
     ELSE IF a = NoTime THEN TRUE
     ELSE IF b = NoTime THEN FALSE
     ELSE a > b

\* The results the SELECT of collectRecentMetrics can give: the published
\* posts in that order, the first limit of them.
RecentRows(limit) ==
  LET published == {p \in 1..Len(posts) : posts[p].status = "published"}
      n == Min(Max(1, Min(500, limit)), Cardinality(published))
  IN {q \in [1..n -> published] :
        /\ \A i, j \in 1..n : i < j => (q[i] # q[j] /\ MayPrecede(q[i], q[j]))
        /\ \A p \in published : \A i \in 1..n :
             (\A k \in 1..n : q[k] # p) => MayPrecede(q[i], p)}

\* POST /api/metrics/collect: collectRecentMetrics up to its loop.
CollectRecentBegin(limit) ==
  /\ col.pc = "idle"
  /\ \E q \in RecentRows(limit) :
       col' = [IdleCollect EXCEPT !.pc = "next",
                 !.queue = [i \in 1..Len(q) |-> <<q[i], posts[q[i]].channel>>]]
  /\ UNCHANGED <<now, posts, req, resp, running, tick, jobs, jobSeq, run, ingests,
                 claimed, pendingIngest, handlers, ragVars, genVars, postMetrics, calc>>

\* collectMetricsForPost up to its first write: a post that is missing or not
\* published is skipped.
CollectPostBegin ==
  /\ col.pc = "next"
  /\ col.queue # <<>>
  /\ LET row == Head(col.queue)
     IN col' = IF ~getPublishedPostById(row[1])
               THEN [col EXCEPT !.queue = Tail(@), !.postId = row[1],
                                !.channel = row[2], !.res = "false",
                                !.inserts = 0, !.updates = 0]
               ELSE [col EXCEPT !.pc = "insert", !.queue = Tail(@), !.postId = row[1],
                                !.channel = row[2], !.res = NULL,
                                !.metric = inferSyntheticMetrics(
                                             JoinedLength(posts[row[1]].text), 0),
                                !.inserts = 0, !.updates = 0]
  /\ UNCHANGED <<now, posts, req, resp, running, tick, jobs, jobSeq, run, ingests,
                 claimed, pendingIngest, handlers, ragVars, genVars, postMetrics, calc>>

\* insertMetric: one more row of post_metrics.
CollectPostInsert(ok) ==
  /\ col.pc = "insert"
  /\ IF ~ok
     THEN /\ col' = [IdleCollect EXCEPT !.res = "error"]
          /\ UNCHANGED postMetrics
     ELSE /\ Len(postMetrics) < MaxMetrics
          /\ postMetrics' = Append(postMetrics,
                              [postId |-> col.postId, channel |-> col.channel,
                               metric |-> col.metric, collectedAt |-> now])
          /\ col' = [col EXCEPT !.pc = "update", !.inserts = @ + 1]
  /\ UNCHANGED <<now, posts, req, resp, running, tick, jobs, jobSeq, run, ingests,
                 claimed, pendingIngest, handlers, ragVars, genVars, calc>>

\* updateVectorPerformanceForPost, return true; the loop goes on.
CollectPostUpdate(ok) ==
  /\ col.pc = "update"
  /\ IF ~ok
     THEN /\ col' = [IdleCollect EXCEPT !.res = "error"]
          /\ UNCHANGED vectors
     ELSE /\ vectors' = updateVectorPerformanceForPost(vectors, col.postId,
                                                       classifyPerformance(col.metric))
          /\ col' = [col EXCEPT !.pc = "next", !.res = "true", !.updates = @ + 1,
                                !.collected = @ + 1]
  /\ UNCHANGED <<now, posts, req, resp, running, tick, jobs, jobSeq, run, ingests,
                 claimed, pendingIngest, handlers, ing, hist, ingestLog, overlap,
                 postMetrics, calc, genVars>>

\* The loop is over: res.status(200).json({ collected }).
CollectRecentEnd ==
  /\ col.pc = "next"
  /\ col.queue = <<>>
  /\ col' = [col EXCEPT !.pc = "idle"]
  /\ resp' = [by |-> "collect", op |-> "collect", code |-> 200, msg |-> NULL, id |-> 0]
  /\ UNCHANGED <<now, posts, req, running, tick, jobs, jobSeq, run, ingests,
                 claimed, pendingIngest, handlers, ragVars, genVars, postMetrics, calc>>

MetricFields == {"impressions", "likes", "comments", "shares", "saves", "clicks"}

\* SUM(pm.<field>) over rows.
RECURSIVE SumField(_, _)
SumField(rows, field) ==
  IF rows = <<>> THEN 0 ELSE Head(rows).metric[field] + SumField(Tail(rows), field)

\* COUNT(DISTINCT pm.post_id) and the COALESCE(SUM(...), 0) of the six fields.
Aggregate(rows) ==
  [f \in MetricFields \cup {"postCount"} |->
     IF f = "postCount" THEN Cardinality({rows[i].postId : i \in 1..Len(rows)})
     ELSE SumField(rows, f)]

\* The rows of post_metrics JOIN posts that the WHERE of the summary keeps;
\* the clock of the model counts days.
SummaryRows(customerId, days) ==
  LET since == now - Max(1, Min(90, days))
  IN SelectSeq(postMetrics,
       LAMBDA pm : /\ Exists(pm.postId)
                   /\ pm.collectedAt >= since
                   /\ (customerId # NULL => posts[pm.postId].customerId = customerId))

getMetricsSummary(customerId, days) ==
  LET rows == SummaryRows(customerId, days)
  IN [totals |-> Aggregate(rows),
      byChannel |-> [c \in {rows[i].channel : i \in 1..Len(rows)} |->
                       Aggregate(SelectSeq(rows, LAMBDA pm : pm.channel = c))]]

\* GET /api/metrics/summary
Summarize(customerId, days) ==
  /\ calc' = [op |-> "summary", customerId |-> customerId, days |-> days,
              out |-> getMetricsSummary(customerId, days)]
  /\ UNCHANGED <<now, posts, req, resp, running, tick, jobs, jobSeq, run, ingests,
                 claimed, pendingIngest, handlers, ragVars, genVars, metricVars>>

\* scoreMetric and classifyPerformance, called on their own.
ScoreCall(metric) ==
  /\ calc' = [op |-> "score", in |-> metric, out |-> scoreMetric(metric)]
  /\ UNCHANGED <<now, posts, req, resp, running, tick, jobs, jobSeq, run, ingests,
                 claimed, pendingIngest, handlers, ragVars, genVars, metricVars>>

ClassifyCall(metric) ==
  /\ calc' = [op |-> "classify", in |-> metric, out |-> classifyPerformance(metric)]
  /\ UNCHANGED <<now, posts, req, resp, running, tick, jobs, jobSeq, run, ingests,
                 claimed, pendingIngest, handlers, ragVars, genVars, metricVars>>

\* ------------------------------------------------------------ pure calls
NoCall == [op |-> NULL]

\* --------------------------------------------------------- sanitizeRagText
\* A fragment's text, for the regular expressions, is a sequence of tokens: a
\* word, or one character of white space (" ", "\n") or of punctuation.
WhiteSpace == {" ", "\n"}

\* The i flag: the tokens sent in capitals, in lower case.
Lower(token) == IF token = "SYSTEM" THEN "system"
                ELSE IF token = "Tool" THEN "tool" ELSE token

\* Elements of a pattern: a literal word, \s+, \s*, [_ -]?
Lit(word) == <<"lit", word>>
Ws1 == <<"ws+">>
Ws0 == <<"ws*">>
Sep == <<"sep?">>

\* The index after the longest run of white space that starts at i.
RECURSIVE SkipWs(_, _)
SkipWs(text, i) ==
  IF i <= Len(text) /\ text[i] \in WhiteSpace THEN SkipWs(text, i + 1) ELSE i

\* The index after the match of the pattern that starts at i, 0 without one.
RECURSIVE MatchEnd(_, _, _)
MatchEnd(text, i, pattern) ==
  IF pattern = <<>> THEN i
  ELSE LET e == Head(pattern)
           rest == Tail(pattern)
       IN CASE e[1] = "lit" ->
                 IF i <= Len(text) /\ Lower(text[i]) = e[2]
                 THEN MatchEnd(text, i + 1, rest) ELSE 0
            [] e[1] = "ws+" ->
                 IF SkipWs(text, i) > i THEN MatchEnd(text, SkipWs(text, i), rest)
                 ELSE 0
            [] e[1] = "ws*" -> MatchEnd(text, SkipWs(text, i), rest)
            [] e[1] = "sep?" ->
                 IF i <= Len(text) /\ text[i] \in {"_", " ", "-"}
                      /\ MatchEnd(text, i + 1, rest) > 0
                 THEN MatchEnd(text, i + 1, rest)
                 ELSE MatchEnd(text, i, rest)

\* String.prototype.replace with a g flag: left to right, no overlap, the
\* replacement is not scanned again.
RECURSIVE ReplaceFrom(_, _, _, _)
ReplaceFrom(text, i, pattern, replacement) ==
  IF i > Len(text) THEN <<>>
  ELSE IF MatchEnd(text, i, pattern) > 0
  THEN replacement \o ReplaceFrom(text, MatchEnd(text, i, pattern), pattern, replacement)
  ELSE <<text[i]>> \o ReplaceFrom(text, i + 1, pattern, replacement)

Replace(text, pattern, replacement) == ReplaceFrom(text, 1, pattern, replacement)

\* .replace(/\s+/g, ' ')
RECURSIVE CollapseFrom(_, _)
CollapseFrom(text, i) ==
  IF i > Len(text) THEN <<>>
  ELSE IF text[i] \in WhiteSpace
  THEN <<" ">> \o CollapseFrom(text, SkipWs(text, i))
  ELSE <<text[i]>> \o CollapseFrom(text, i + 1)

\* .trim()
RECURSIVE TrimText(_)
TrimText(text) ==
  IF text = <<>> THEN text
  ELSE IF Head(text) \in WhiteSpace THEN TrimText(Tail(text))
  ELSE IF text[Len(text)] \in WhiteSpace THEN TrimText(SubSeq(text, 1, Len(text) - 1))
  ELSE text

IgnorePrevious == <<Lit("ignore"), Ws1, Lit("previous"), Ws1, Lit("instructions")>>
DisregardPrior ==
  <<Lit("disregard"), Ws1, Lit("all"), Ws1, Lit("prior"), Ws1, Lit("rules")>>
SystemRole == <<Lit("system"), Ws0, Lit(":"), Ws0>>
DeveloperRole == <<Lit("developer"), Ws0, Lit(":"), Ws0>>
ToolCall == <<Lit("tool"), Sep, Lit("call")>>
ApiKey == <<Lit("api"), Sep, Lit("key")>>

\* '[removed: instruction-like text]' and the other replacement strings.
RemovedInstruction == <<"[removed", ":", " ", "instruction", "-", "like", " ", "text]">>
RemovedSystem == <<"[removed", ":", " ", "system", "-", "mimic", " ", "text]", " ">>
RemovedRole == <<"[removed", ":", " ", "role", "-", "mimic", " ", "text]", " ">>
RemovedToolCall == <<"[removed", ":", " ", "tool", "-", "call", " ", "mimic", " ", "text]">>
RemovedCredential == <<"[removed", ":", " ", "credential", "-", "like", " ", "token]">>

sanitizeRagText(value) ==
  LET r1 == Replace(value, IgnorePrevious, RemovedInstruction)
      r2 == Replace(r1, DisregardPrior, RemovedInstruction)
      r3 == Replace(r2, SystemRole, RemovedSystem)
      r4 == Replace(r3, DeveloperRole, RemovedRole)
      r5 == Replace(r4, ToolCall, RemovedToolCall)
      r6 == Replace(r5, ApiKey, RemovedCredential)
  IN TrimText(CollapseFrom(r6, 1))

\* mapRows: textContent: sanitizeRagText(row.text_content)
SanitizeCall(text) ==
  /\ calc' = [op |-> "sanitize", in |-> text, out |-> sanitizeRagText(text)]
  /\ UNCHANGED <<now, posts, req, resp, running, tick, jobs, jobSeq, run, ingests,
                 claimed, pendingIngest, handlers, ragVars, genVars, metricVars>>

\* ------------------------------------------------- channel account resolution
\* /^\d+$/
IsNumeric(value) == value \in {"111", "222"}

\* normalizeNumericId: null for a missing or empty value and for one that is
\* not all digits once trimmed.
normalizeNumericId(value) ==
  IF value = NULL \/ value = "" THEN NULL
  ELSE IF IsNumeric(Trim(value)) THEN Trim(value) ELSE NULL

\* resolveThreadsAccountId; configured is process.env.META_THREADS_ACCOUNT_ID.
resolveThreadsAccountId(configured, customerThreadsAccount) ==
  IF normalizeNumericId(configured) # NULL THEN normalizeNumericId(configured)
  ELSE IF normalizeNumericId(customerThreadsAccount) # NULL
  THEN normalizeNumericId(customerThreadsAccount)
  ELSE NULL

\* resolveInstagramAccountId; configured is process.env.META_INSTAGRAM_ACCOUNT_ID.
resolveInstagramAccountId(configured, customerInstagramAccount) ==
  IF normalizeNumericId(configured) # NULL THEN normalizeNumericId(configured)
  ELSE IF normalizeNumericId(customerInstagramAccount) # NULL
  THEN normalizeNumericId(customerInstagramAccount)
  ELSE NULL

ResolveCall(channel, configured, customerAccount) ==
  /\ calc' = [op |-> "resolve", channel |-> channel, configured |-> configured,
              customerAccount |-> customerAccount,
              out |-> IF channel = "threads"
                      THEN resolveThreadsAccountId(configured, customerAccount)
                      ELSE resolveInstagramAccountId(configured, customerAccount)]
  /\ UNCHANGED <<now, posts, req, resp, running, tick, jobs, jobSeq, run, ingests,
                 claimed, pendingIngest, handlers, ragVars, genVars, metricVars>>

\* ------------------------------------------------------ searchRagReferences
\* For ILIKE a text is a sequence of characters.
LowerChar(c) == IF c = "A" THEN "a" ELSE IF c = "I" THEN "i" ELSE c

\* text LIKE pattern, case-insensitively: % is any run of characters, _ any
\* one character.
RECURSIVE ILike(_, _)
ILike(text, pattern) ==
  IF pattern = <<>> THEN text = <<>>
  ELSE IF Head(pattern) = "%"
  THEN ILike(text, Tail(pattern)) \/ (text # <<>> /\ ILike(Tail(text), pattern))
  ELSE /\ text # <<>>
       /\ Head(pattern) = "_" \/ LowerChar(Head(text)) = LowerChar(Head(pattern))
       /\ ILike(Tail(text), Tail(pattern))

\* toPerformanceList: null (here the empty list) without a minimum.
toPerformanceList(min) ==
  IF min = NULL THEN <<>>
  ELSE IF min = "high" THEN <<"high">> ELSE <<"high", "medium">>

\* value IN (list); a NULL value is in no list.
InList(value, list) ==
  value # NULL /\ \E i \in 1..Len(list) : list[i] = value

RagSourceTypes == {"past-content", "project-doc", "profile"}

\* buildSqlFilters: the filters, joined with AND, as a condition on a row.
buildSqlFilters(input, row) ==
  /\ row.customerId = input.customerId
  /\ input.category # NULL
       => row.category # NULL /\ row.category = input.category
  /\ Len(input.ragFilters.categories) > 0
       => InList(row.category, input.ragFilters.categories)
  /\ Len(toPerformanceList(input.ragFilters.performanceMin)) > 0
       => InList(row.performance, toPerformanceList(input.ragFilters.performanceMin))
  /\ Len(input.ragFilters.excludePostIds) > 0
       => row.sourceId = NULL \/ ~InList(row.sourceId, input.ragFilters.excludePostIds)
  /\ row.sourceType \in RagSourceTypes
  /\ \/ row.sourceType # "past-content"
     \/ row.channel = NULL
     \/ row.channel = input.channel

\* searchWithPostgresVector: the rows of the WHERE. The table is shorter than
\* the smallest LIMIT, and the order of the rows is not modelled.
searchWithPostgresVector(tbl, input) ==
  SelectSeq(tbl, LAMBDA row : buildSqlFilters(input, row))

\* searchWithTextFallback: the same, with text_content ILIKE '%' + topic + '%'.
searchWithTextFallback(tbl, input) ==
  SelectSeq(tbl, LAMBDA row :
    /\ buildSqlFilters(input, row)
    /\ ILike(row.textContent, <<"%">> \o input.topic \o <<"%">>))

\* searchRagReferences: embedded says that embedQuery returned a vector.
searchRagReferences(tbl, input, embedded) ==
  IF embedded THEN searchWithPostgresVector(tbl, input)
  ELSE searchWithTextFallback(tbl, input)

SearchCall(tbl, input, embedded) ==
  /\ calc' = [op |-> "search", tbl |-> tbl, in |-> input, embedded |-> embedded,
              out |-> searchRagReferences(tbl, input, embedded)]
  /\ UNCHANGED <<now, posts, req, resp, running, tick, jobs, jobSeq, run, ingests,
                 claimed, pendingIngest, handlers, ragVars, genVars, metricVars>>

\* -------------------------------------------------- POST /api/content/generate
\* customerId values a client can send: asString trims for the validation,
\* String() keeps the value as sent for the limiter's key and the lookup.
RawCustomerIds == {"c1", " c1 "}

\* ragReferences: the fragments handed to the generation; ragFailed: the
\* warning of a search that threw was logged for the last request admitted.
NoReferences == <<>>

\* A response without a draft.
NoDraft == [title |-> NULL, content |-> NULL]

IdleGen == [pc |-> "idle", customerId |-> NULL, at |-> NoTime,
            ragReferences |-> NoReferences, ragFailed |-> FALSE]

\* RATE_LIMIT_WINDOW_MS
RATE_LIMIT_WINDOW_MS == 60000
\* RATE_LIMIT_MAX
RATE_LIMIT_MAX == 5

\* The instants at which Date.now() is read: around the ends of the window.
GenTimes == {0, 1, RATE_LIMIT_WINDOW_MS - 1, RATE_LIMIT_WINDOW_MS,
             RATE_LIMIT_WINDOW_MS + 1}

AdvanceMs ==
  /\ \E t \in GenTimes : t > nowMs /\ nowMs' = t
  /\ UNCHANGED <<now, posts, req, resp, running, tick, jobs, jobSeq, run, ingests,
                 claimed, pendingIngest, handlers, metricVars, calc, ragVars, gen, generateTimestamps,
                 admitted>>

\* validatePayload of the generate route.
validatePayload(payload) ==
  IF asString(payload.customerId) = NULL THEN "customerId is required"
  ELSE IF ~isValidChannel(payload.channel) THEN "channel is invalid"
  ELSE IF asString(payload.topic) = NULL THEN "topic is required"
  ELSE NULL

forgetTimestamps(timestamps, at) == <<>>

\* timestamps.filter((t) => now - t < RATE_LIMIT_WINDOW_MS)
recentTimestamps(timestamps, at) ==
  SelectSeq(timestamps, LAMBDA t : at - t < RATE_LIMIT_WINDOW_MS)

\* isRateLimited: the value returned; the Map is left holding the recent
\* timestamps, with now pushed when the request is let through.
isRateLimited(customerId) ==
  Len(recentTimestamps(generateTimestamps[customerId], nowMs)) >= RATE_LIMIT_MAX

recordRefused(recent, at) == Append(recent, at)

\* generateTimestamps.set(customerId, recent); if (recent.length >=
\* RATE_LIMIT_MAX) return true: what the Map holds for the key of a refused
\* request.
setRecent(recent, at) == recent

GenResp(code, msg) ==
  resp' = [by |-> "gen", op |-> "generate", code |-> code, msg |-> msg, id |-> 0,
           detail |-> NULL, content |-> NoDraft]

\* Validation and the limiter, up to the await of getCustomerById.
GenBegin(payload) ==
  /\ gen.pc = "idle"
  /\ IF validatePayload(payload) # NULL
     THEN /\ GenResp(400, validatePayload(payload))
          /\ UNCHANGED <<gen, generateTimestamps, admitted>>
     ELSE LET customerId == payload.customerId
              recent == recentTimestamps(generateTimestamps[customerId], nowMs)
          IN IF isRateLimited(customerId)
             THEN /\ generateTimestamps' =
                       [generateTimestamps EXCEPT ![customerId] =
                          setRecent(recent, nowMs)]
                  /\ GenResp(429, "Too many generation requests. Please wait before retrying.")
                  /\ UNCHANGED <<gen, admitted>>
             ELSE /\ Len(admitted) < MaxGen
                  /\ generateTimestamps' =
                       [generateTimestamps EXCEPT ![customerId] = Append(recent, nowMs)]
                  /\ admitted' = Append(admitted, <<customerId, nowMs>>)
                  /\ gen' = [IdleGen EXCEPT !.pc = "lookup",
                                             !.customerId = customerId,
                                             !.at = nowMs]
                  /\ UNCHANGED resp
  /\ UNCHANGED <<now, posts, req, running, tick, jobs, jobSeq, run, ingests, claimed,
                 pendingIngest, handlers, metricVars, calc, ragVars, nowMs>>

\* getCustomerById: SELECT ... FROM customers WHERE id = $1
GenLookup ==
  /\ gen.pc = "lookup"
  /\ IF gen.customerId \notin Customers
     THEN /\ GenResp(404, "Customer not found")
          /\ gen' = IdleGen
     ELSE /\ gen' = [gen EXCEPT !.pc = "rag"]
          /\ UNCHANGED resp
  /\ UNCHANGED <<now, posts, req, running, tick, jobs, jobSeq, run, ingests, claimed,
                 pendingIngest, handlers, metricVars, calc, ragVars, nowMs, generateTimestamps, admitted>>

\* What searchRagReferences can answer: nothing, or fragments.
RagResults == {NoReferences, <<"fragment">>}

\* searchRagReferences in its try: the references found, or, when the search
\* throws, the warning and the empty list the variable was initialised with.
GenRag(ok, references) ==
  /\ gen.pc = "rag"
  /\ gen' = [gen EXCEPT !.pc = "llm",
                        !.ragReferences = IF ok THEN references ELSE NoReferences,
                        !.ragFailed = ~ok]
  /\ UNCHANGED <<now, posts, req, resp, running, tick, jobs, jobSeq, run, ingests,
                 claimed, pendingIngest, handlers, metricVars, calc, ragVars, nowMs, generateTimestamps,
                 admitted>>

\* The ways a call of the model ends: no API key, a response that is not ok,
\* a response without content, content that is not JSON, JSON without title
\* and content, JSON with both.
LlmOutcomes == {"no-key", "not-ok", "empty", "not-json", "no-fields", "ok"}

NoTitle == "no title was generated"
NoContent == "no content was generated"

\* normalizeGeneratedContent: a missing title or content becomes a placeholder.
normalizeGeneratedContent(outcome) ==
  IF outcome = "ok" THEN [title |-> "title", content |-> "content"]
  ELSE [title |-> NoTitle, content |-> NoContent]

\* generateContent: the error thrown, or the normalised draft.
generateContent(outcome) ==
  IF outcome = "no-key"
  THEN [error |-> "OPENAI_API_KEY is not configured", value |-> NoDraft]
  ELSE IF outcome = "not-ok"
  THEN [error |-> "OpenAI request failed", value |-> NoDraft]
  ELSE IF outcome = "empty"
  THEN [error |-> "OpenAI returned empty content", value |-> NoDraft]
  ELSE IF outcome = "not-json"
  THEN [error |-> "Model response is not valid JSON", value |-> NoDraft]
  ELSE [error |-> NULL, value |-> normalizeGeneratedContent(outcome)]

respondAlways(generated) ==
  [by |-> "gen", op |-> "generate", code |-> 200, msg |-> NULL, id |-> 0,
   detail |-> NULL,
   content |-> IF generated.error = NULL THEN generated.value
               ELSE normalizeGeneratedContent("no-fields")]

\* The try around generateContent: 200 with the draft, 502 in the catch.
respondGenerated(generated) ==
  IF generated.error = NULL
  THEN [by |-> "gen", op |-> "generate", code |-> 200, msg |-> NULL, id |-> 0,
        detail |-> NULL, content |-> generated.value]
  ELSE [by |-> "gen", op |-> "generate", code |-> 502,
        msg |-> "Content generation failed", id |-> 0,
        detail |-> generated.error, content |-> NoDraft]

\* generateContent with the references, and the response.
GenLlm(outcome) ==
  /\ gen.pc = "llm"
  /\ gen' = [IdleGen EXCEPT !.ragFailed = gen.ragFailed]
  /\ resp' = respondGenerated(generateContent(outcome))
  /\ UNCHANGED <<now, posts, req, running, tick, jobs, jobSeq, run, ingests, claimed,
                 pendingIngest, handlers, metricVars, calc, ragVars, nowMs, generateTimestamps, admitted>>

\* PublishingJobName
PublishingJobNames == {"publish-post", "retry-publish"}

\* ------------------------------------------------------------ specification
\* A title and content of one short paragraph; a title and content of blanks.
PlainText == << <<"a", 300>> >>
BlankText == << <<" ", 0>> >>

Image == <<"https://img.example/1.png">>

InitBase ==
  /\ now = 0
  /\ posts = <<>>
  /\ req = [r \in Reqs |-> IdleReq]
  /\ resp = NoResp
  /\ running = FALSE
  /\ tick = [t \in Ticks |-> IdleTick]
  /\ jobs = <<>>
  /\ jobSeq = 0
  /\ run = IdleRun
  /\ ingests = [p \in PostIds |-> 0]
  /\ claimed = [p \in PostIds |-> {}]
  /\ pendingIngest = {}
  /\ vectors = <<>>
  /\ ing = IdleIngest
  /\ hist = [s \in Sources |-> NoHist]
  /\ ingestLog = NoLog
  /\ overlap = IdleIngest
  /\ nowMs = 0
  /\ gen = IdleGen
  /\ generateTimestamps = [c \in RawCustomerIds |-> <<>>]
  /\ admitted = <<>>
  /\ postMetrics = <<>>
  /\ col = IdleCollect
  /\ calc = NoCall

\* The worker is started with a handler for every job name.
Init ==
  /\ InitBase
  /\ handlers = PublishingJobNames

\* The whole system around one post that is due from the start: one API
\* client, the scheduler's timer, the queue and one worker.
CreateBodies ==
  {[customerId |-> "c1", channel |-> ci[1], status |-> s, scheduledAt |-> 0,
    images |-> ci[2], idempotencyKey |-> NULL, text |-> PlainText] :
     ci \in (CHANNELS \X {Image}) \cup {<<"instagram", <<>> >>},
     s \in {NULL, "approved"}}

PutBodies == {[status |-> s] : s \in {NULL, "draft", BogusStatus}}

PatchBodies ==
  {[status |-> s, publishedUrl |-> NULL, errorMessage |-> NULL] :
     s \in STATUSES \cup {BogusStatus}}

Next ==
  \/ \E body \in CreateBodies : posts = <<>> /\ CreateBegin("r1", body)
  \/ \E id \in PostIds, body \in PutBodies : PutBegin("r1", id, body)
  \/ PutWrite("r1")
  \/ \E id \in PostIds, body \in PatchBodies : PatchBegin("r1", id, body)
  \/ PatchWrite("r1")
  \/ \E batchSize \in 1..MaxBatch : TickStart("t1", batchSize)
  \/ TickMark("t1")
  \/ \E j \in 1..Len(jobs), cred \in {"ok", "missing"} : PublishBegin(j, cred)
  \/ \E ok \in BOOLEAN : PublishCreate(ok)
  \/ \E ok \in BOOLEAN : PublishFinish(ok)

Spec == Init /\ [][Next]_vars

\* The status route on one post under two concurrent clients.
ApiCreateBodies ==
  {[customerId |-> "c1", channel |-> "threads", status |-> s, scheduledAt |-> 0,
    images |-> <<>>, idempotencyKey |-> NULL, text |-> PlainText] :
     s \in {NULL, "review"}}

ApiPatchBodies ==
  {b \in [status : STATUSES \cup {BogusStatus}, publishedUrl : Urls \cup {NULL},
          errorMessage : Errors \cup {NULL}] :
     /\ b.publishedUrl # NULL => b.status = "published"
     /\ b.errorMessage # NULL => b.status \in {"published", "failed"}}

NextApi ==
  \/ AdvanceClock
  \/ \E body \in ApiCreateBodies : posts = <<>> /\ CreateBegin("r1", body)
  \/ \E r \in Reqs, id \in PostIds, body \in ApiPatchBodies : PatchBegin(r, id, body)
  \/ \E r \in Reqs : PatchWrite(r)

SpecApi == Init /\ [][NextApi]_vars

\* The creation route under two concurrent clients.
KeyedCreateBodies ==
  {[customerId |-> c, channel |-> "threads", status |-> s, scheduledAt |-> 0,
    images |-> <<>>, idempotencyKey |-> k, text |-> PlainText] :
     c \in Customers, s \in {NULL, "published", BogusStatus},
     k \in Keys \cup {NULL, ""}}

NextCreate ==
  \/ \E r \in Reqs, body \in KeyedCreateBodies : CreateBegin(r, body)
  \/ \E r \in Reqs : CreateInsert(r)

SpecCreate == Init /\ [][NextCreate]_vars

\* The scheduler against the queue at one instant: overlapping timer callbacks
\* and a client that creates approved posts, due (scheduledAt = 0) or not yet
\* due, and fails posts through the status route.
SchedCreateBodies ==
  {[customerId |-> "c1", channel |-> "threads", status |-> "approved",
    scheduledAt |-> at, images |-> <<>>, idempotencyKey |-> NULL,
    text |-> PlainText] : at \in Times}

SchedPatchBodies ==
  {[status |-> s, publishedUrl |-> NULL, errorMessage |-> NULL] :
     s \in {"failed"}}

NextSched ==
  \/ \E body \in SchedCreateBodies : CreateBegin("r1", body)
  \/ \E id \in PostIds, body \in SchedPatchBodies : PatchBegin("r1", id, body)
  \/ PatchWrite("r1")
  \/ \E t \in Ticks, batchSize \in 1..MaxBatch : TickStart(t, batchSize)
  \/ \E t \in Ticks : TickMark(t)

SpecSched == Init /\ [][NextSched]_vars

\* The scheduler with failing steps: the due-post query, the status write or
\* the enqueue of a tick may throw.  A tick that is in its loop takes its next
\* step, as each await of the loop settles.
NextGuard ==
  \/ \E body \in SchedCreateBodies : CreateBegin("r1", body)
  \/ \E t \in Ticks, batchSize \in 1..MaxBatch : TickStart(t, batchSize)
  \/ \E t \in Ticks : TickMark(t)
  \/ \E t \in Ticks : TickFetchThrows(t)
  \/ \E t \in Ticks, step \in {"mark", "enqueue"} : TickLoopThrows(t, step)

GuardFairness ==
  WF_vars(\E t \in Ticks : TickMark(t) \/ \E step \in {"mark", "enqueue"} : TickLoopThrows(t, step))

SpecGuard == Init /\ [][NextGuard]_vars /\ GuardFairness

\* The ingest around one post: a title and content of blanks (no chunk), texts
\* of one and two chunks, a PUT that empties title and content, a post
\* created publishing or published, edited by PUT, published by PATCH, and
\* one ingest at a time.
Texts ==
  {BlankText,
   PlainText,
   << <<"a", 300>>, <<"b", 300>> >>}

IngestCreateBodies ==
  {[customerId |-> "c1", channel |-> "threads", status |-> s, scheduledAt |-> 0,
    images |-> Image, idempotencyKey |-> NULL, text |-> t] :
     s \in {"publishing", "published"}, t \in Texts}

IngestPutBodies ==
  {[status |-> NULL, text |-> t] : t \in Texts \cup {<<>>}} \cup {[status |-> "draft"]}

IngestPatchBodies ==
  {[status |-> s, publishedUrl |-> NULL, errorMessage |-> NULL] :
     s \in {"published"}}

NextIngest ==
  \/ \E body \in IngestCreateBodies : posts = <<>> /\ CreateBegin("r1", body)
  \/ \E body \in IngestPutBodies : PutBegin("r1", 1, body)
  \/ PutWrite("r1")
  \/ \E body \in IngestPatchBodies : PatchBegin("r1", 1, body)
  \/ PatchWrite("r1")
  \/ \E p \in PostIds : IngestPostStart(p)
  \/ \E outcome \in EmbedOutcomes : IngestEmbed(outcome)
  \/ \E ok \in BOOLEAN : IngestUpsert(ok)
  \/ \E ok \in BOOLEAN : IngestDelete(ok)

SpecIngest == Init /\ [][NextIngest]_vars

\* The project-doc route alone: one document, with texts of no, one, two and three chunks, some with parts
\* that trim to nothing.
DocTexts ==
  {<<>>,
   << <<" ", 0>> >>,
   << <<"a", 300>> >>,
   << <<"a", 300>>, <<" ", 0>>, <<"b", 300>> >>,
   << <<"c", 1001>> >>}

DocBodies ==
  {[customerId |-> c, sourceId |-> d, text |-> t] :
     c \in {"c1", NULL}, d \in DocIds \cup {NULL}, t \in DocTexts}

NextDoc ==
  \/ \E body \in DocBodies : IngestDocStart(body)
  \/ \E outcome \in EmbedOutcomes : IngestEmbed(outcome)
  \/ \E ok \in BOOLEAN : IngestUpsert(ok)
  \/ \E ok \in BOOLEAN : IngestDelete(ok)

SpecDoc == Init /\ [][NextDoc]_vars

\* Two requests of the project-doc route for one document, the second
\* received while the ingest of the first is running: texts of one, two and
\* three chunks.
OverlapTexts ==
  {<< <<"a", 300>> >>,
   << <<"a", 300>>, <<"b", 300>> >>,
   << <<"c", 1001>> >>}

OverlapBodies ==
  {[customerId |-> c, sourceId |-> "d1", text |-> t] :
     c \in {"c1", NULL}, t \in OverlapTexts}

NextOverlap ==
  \/ \E body \in OverlapBodies : ing = IdleIngest /\ IngestDocStart(body)
  \/ \E outcome \in EmbedOutcomes : IngestEmbed(outcome)
  \/ \E ok \in BOOLEAN : IngestUpsert(ok)
  \/ \E ok \in BOOLEAN : IngestDelete(ok)
  \/ \E body \in OverlapBodies : overlap = IdleIngest /\ OverlapDocStart(body)
  \/ \E outcome \in EmbedOutcomes : OverlapEmbed(outcome)
  \/ \E ok \in BOOLEAN : OverlapUpsert(ok)
  \/ \E ok \in BOOLEAN : OverlapDelete(ok)

SpecOverlap == Init /\ [][NextOverlap]_vars

\* The generate route under a moving clock, with customer ids sent as stored
\* and with surrounding blanks.
GenPayloads ==
  {[customerId |-> c, channel |-> ch, topic |-> "t"] :
     c \in RawCustomerIds \cup {" "}, ch \in {"threads", BogusStatus}}

NextGen ==
  \/ AdvanceMs
  \/ \E payload \in GenPayloads : GenBegin(payload)
  \/ GenLookup
  \/ \E ok \in BOOLEAN, references \in RagResults : GenRag(ok, references)
  \/ \E outcome \in {"ok", "not-ok"} : GenLlm(outcome)

SpecGen == Init /\ [][NextGen]_vars

\* One organization's generation requests at one instant, with every outcome
\* of the search and of the generation.
DraftPayloads ==
  {[customerId |-> c, channel |-> "threads", topic |-> "t"] :
     c \in RawCustomerIds}

NextDraft ==
  \/ \E payload \in DraftPayloads : GenBegin(payload)
  \/ GenLookup
  \/ \E ok \in BOOLEAN, references \in RagResults : GenRag(ok, references)
  \/ \E outcome \in LlmOutcomes : GenLlm(outcome)

SpecDraft == Init /\ [][NextDraft]_vars

\* Scheduler, queue and worker around one due post, the worker started with
\* any subset of the handlers.
InitWorker ==
  /\ InitBase
  /\ handlers \in SUBSET PublishingJobNames

WorkerCreateBodies ==
  {[customerId |-> "c1", channel |-> c, status |-> "approved", scheduledAt |-> 0,
    images |-> Image, idempotencyKey |-> NULL, text |-> PlainText] :
     c \in {"threads", "nextjs-blog"}}

NextWorker ==
  \/ \E body \in WorkerCreateBodies : posts = <<>> /\ CreateBegin("r1", body)
  \/ \E batchSize \in 1..MaxBatch : TickStart("t1", batchSize)
  \/ TickMark("t1")
  \/ \E j \in 1..Len(jobs), cred \in {"ok", "missing"} : PublishBegin(j, cred)
  \/ \E ok \in BOOLEAN : PublishCreate(ok)
  \/ \E ok \in BOOLEAN : PublishFinish(ok)

SpecWorker == InitWorker /\ [][NextWorker]_vars

\* The metrics collector around up to two posts created published, of a short
\* and of a longer text: their ingest, a PUT that takes a post back to draft,
\* and collections.
TwoParagraphs == << <<"a", 300>>, <<"b", 300>> >>

MetricsCreateBodies ==
  {[customerId |-> "c1", channel |-> "threads", status |-> "published",
    scheduledAt |-> 0, images |-> Image, idempotencyKey |-> NULL, text |-> t] :
     t \in {PlainText, TwoParagraphs}}

NextMetrics ==
  \/ \E body \in MetricsCreateBodies : CreateBegin("r1", body)
  \/ PutBegin("r1", 2, [status |-> "draft"])
  \/ PutWrite("r1")
  \/ \E p \in PostIds : IngestPostStart(p)
  \/ IngestEmbed("no-key")
  \/ IngestUpsert(TRUE)
  \/ IngestDelete(TRUE)
  \/ \E limit \in {1, 100} : CollectRecentBegin(limit)
  \/ CollectPostBegin
  \/ \E ok \in BOOLEAN : CollectPostInsert(ok)
  \/ \E ok \in BOOLEAN : CollectPostUpdate(ok)
  \/ CollectRecentEnd

SpecMetrics == Init /\ [][NextMetrics]_vars

\* The summary: posts of two organizations, collections that succeed, the
\* clock, and summaries with and without the organization filter.
SummaryCreateBodies ==
  {[customerId |-> c, channel |-> ch, status |-> "published",
    scheduledAt |-> 0, images |-> Image, idempotencyKey |-> NULL, text |-> PlainText] :
     c \in Customers, ch \in {"threads", "instagram"}}

NextSummary ==
  \/ \E body \in SummaryCreateBodies : CreateBegin("r1", body)
  \/ AdvanceClock
  \/ CollectRecentBegin(100)
  \/ CollectPostBegin
  \/ CollectPostInsert(TRUE)
  \/ CollectPostUpdate(TRUE)
  \/ CollectRecentEnd
  \/ \E customerId \in Customers \cup {NULL}, days \in {1, 30} :
       Summarize(customerId, days)

SpecSummary == Init /\ [][NextSummary]_vars

\* The pure functions, each called on inputs drawn from a bounded set.
\* Stored texts: up to MaxParts of these pieces, one after the other.
Pieces ==
  {<<"x">>, <<" ">>, <<"\n">>, <<":">>, <<"tool">>, <<"call">>,
   <<"tool", " ", "call">>, <<"Tool", "-", "call">>, <<"tool", "_", "call">>,
   <<"tool", "\n", "call">>, <<"api", "key">>, <<"api", " ", " ", "key">>,
   <<"SYSTEM", ":", " ">>, <<"system", " ", "\n", ":">>, <<"developer", ":">>,
   <<"ignore", " ", "previous", "\n", "instructions">>, <<"ignore", " ">>,
   <<"previous", " ", "instructions">>,
   <<"disregard", " ", "all", " ", "prior", " ", "rules">>}

RECURSIVE TextsOf(_)
TextsOf(n) ==
  IF n = 0 THEN {<<>>}
  ELSE TextsOf(n - 1) \cup {t \o piece : t \in TextsOf(n - 1), piece \in Pieces}

\* Texts to chunk: up to MaxPars parts between blank lines, of these lengths
\* after the trim, and the maxima they are chunked with.
ParLens == {0, 1, 2, 3, 4, 9}
MaxLengths == 1..4

RECURSIVE ParsOf(_)
ParsOf(n) ==
  IF n = 0 THEN {<<>>}
  ELSE ParsOf(n - 1) \cup {Append(t, <<"a", k>>) : t \in ParsOf(n - 1), k \in ParLens}

\* Metric rows around the two thresholds of the classification.
MetricRows ==
  [impressions : {100}, likes : {0, 37, 38, 117, 118}, comments : {0, 1},
   shares : {0, 1}, saves : {0, 1}, clicks : {0, 2}]

\* Searches: rows and queries that differ in the filtered columns, with one
\* text and topic, and rows and queries that differ in the text and the topic.
PlainChars == <<"a", "i">>

RagFilterSets ==
  [categories : {<<>>, <<"news">>, <<"news", "event">>},
   performanceMin : {NULL, "high", "medium"},
   excludePostIds : {<<>>, <<"1">>}]

FilterInputs ==
  [customerId : {"c1"}, channel : {"threads"}, topic : {PlainChars},
   category : {NULL, "news"}, ragFilters : RagFilterSets]

FilterRows ==
  [customerId : Customers, sourceType : {"past-content", "profile"},
   category : {NULL, "news", "event"}, channel : {NULL, "threads", "instagram"},
   performance : {NULL, "high", "medium", "low"}, sourceId : {NULL, "1", "2"},
   textContent : {PlainChars}]

Topics == {PlainChars, <<"A", "I">>, <<"5", "0", "%">>, <<"a", "_", "i">>}

TopicInputs ==
  [customerId : {"c1"}, channel : {"threads"}, topic : Topics,
   category : {NULL},
   ragFilters : {[categories |-> <<>>, performanceMin |-> NULL,
                  excludePostIds |-> <<>>]}]

TopicRows ==
  [customerId : {"c1"}, sourceType : {"past-content"}, category : {NULL},
   channel : {"threads", "instagram"}, performance : {NULL}, sourceId : {"1"},
   textContent : {PlainChars, <<"A", "i", "d">>, <<"5", "0", "0">>,
                  <<"5", "0", "%">>, <<"a", "x", "i">>, <<"o">>}]

\* Account values: none, empty, numeric, numeric between spaces, a handle.
AccountValues == {NULL, "", "111", " 222 ", "@brand"}

NextCalc ==
  \/ calc = NoCall /\ \E metric \in MetricRows : ScoreCall(metric)
  \/ calc = NoCall /\ \E metric \in MetricRows : ClassifyCall(metric)
  \/ calc = NoCall /\ \E text \in TextsOf(MaxParts) : SanitizeCall(text)
  \/ calc = NoCall /\ \E text \in ParsOf(MaxPars), maxLength \in MaxLengths :
                        ChunkCall(text, maxLength)
  \/ calc = NoCall /\ \E input \in FilterInputs, row \in FilterRows,
                           embedded \in BOOLEAN :
                        SearchCall(<<row>>, input, embedded)
  \/ calc = NoCall /\ \E input \in TopicInputs, row \in TopicRows,
                           embedded \in BOOLEAN :
                        SearchCall(<<row>>, input, embedded)
  \/ calc = NoCall /\ \E channel \in {"threads", "instagram"},
                           configured \in AccountValues,
                           customerAccount \in AccountValues :
                        ResolveCall(channel, configured, customerAccount)

SpecCalc == Init /\ [][NextCalc]_vars

\* One post that is due, from its creation to the end of its publish runs:
\* the timer's ticks, with their failures, the worker's runs, with theirs, and
\* an operator who approves the post again after a failure.
LiveCreateBodies ==
  {[customerId |-> "c1", channel |-> "threads", status |-> "approved",
    scheduledAt |-> 0, images |-> <<>>, idempotencyKey |-> NULL,
    text |-> PlainText]}

LivePatchBodies ==
  {[status |-> "approved", publishedUrl |-> NULL, errorMessage |-> NULL]}

TickSteps ==
  \/ TickMark("t1")
  \/ \E step \in {"mark", "enqueue"} : TickLoopThrows("t1", step)

CallSteps ==
  \/ \E ok \in BOOLEAN : PublishCreate(ok)
  \/ \E ok \in BOOLEAN : PublishFinish(ok)
  \/ PublishRecordThrows(TRUE)
  \/ PublishNeverResponds

NextLive ==
  \/ \E body \in LiveCreateBodies : posts = <<>> /\ CreateBegin("r1", body)
  \/ \E body \in LivePatchBodies : PatchBegin("r1", 1, body)
  \/ PatchWrite("r1")
  \/ TickStart("t1", 1)
  \/ TickFetchThrows("t1")
  \/ TickSteps
  \/ \E j \in 1..Len(jobs) : PublishBegin(j, "ok")
  \/ CallSteps

\* The timer keeps firing, a database or queue call of a tick settles, the
\* worker takes a waiting job, a call to the channel either settles or is one
\* that is never answered, a request's write settles.
LiveFairness ==
  /\ WF_vars(TickStart("t1", 1))
  /\ WF_vars(TickSteps)
  /\ WF_vars(\E j \in 1..Len(jobs) : PublishBegin(j, "ok"))
  /\ WF_vars(CallSteps)
  /\ WF_vars(PatchWrite("r1"))

SpecLive == Init /\ [][NextLive]_vars /\ LiveFairness

\* -------------------------------------------------------------- properties
\* The lifecycle of a post as stated for the Post State Machine.
LifecycleTable ==
  [s \in STATUSES |->
     CASE s = "draft"      -> {"review", "approved", "failed"}
       [] s = "review"     -> {"approved", "failed", "draft"}
       [] s = "approved"   -> {"publishing", "failed"}
       [] s = "publishing" -> {"published", "failed"}
       [] s = "published"  -> {}
       [] s = "failed"     -> {"draft", "approved"}]

Stored == 1..Len(posts)

\* C1: a status update whose target is a status outside the allowed set of
\* the status the post has when the handler reads it is answered with the
\* invalid-transition error and writes nothing: status, updatedAt and every
\* other column of the post are as before.
C1_InvalidTransitionRejected ==
  [][\A r \in Reqs, id \in PostIds, body \in ApiPatchBodies :
       (/\ Exists(id)
        /\ body.status \in STATUSES
        /\ body.status \notin LifecycleTable[posts[id].status]
        /\ PatchBegin(r, id, body))
       => (/\ resp'.by = r
           /\ resp'.code = 400
           /\ resp'.msg = "Invalid status transition"
           /\ req'[r].pc = "idle"
           /\ posts' = posts)]_vars

\* A request was refused as an invalid transition at a time later than the
\* post's updatedAt, which the refusal left alone.
C1_Witness ==
  /\ resp.op = "patch"
  /\ resp.msg = "Invalid status transition"
  /\ Exists(resp.id)
  /\ posts[resp.id].updatedAt < now
  /\ posts[resp.id].status = "published"

\* C2: published is terminal: a post whose stored status is published keeps
\* that status in every step of the system.
C2_PublishedIsTerminal ==
  [][\A p \in Stored : posts[p].status = "published"
                         => posts'[p].status = "published"]_vars

\* C3: every change of a post's stored status, by whichever component, is a
\* transition of the lifecycle table.
C3_EveryChangeIsATransition ==
  [][\A p \in Stored : posts'[p].status # posts[p].status
                         => posts'[p].status \in LifecycleTable[posts[p].status]]_vars

\* C4: the scheduler's move to publishing is an atomic claim: when the post is
\* no longer approved at the moment of the scheduler's write, the write changes
\* nothing and no job is enqueued.
C4_SchedulerClaimIsAtomic ==
  [][\A t \in Ticks :
       (/\ tick[t].pc = "loop"
        /\ tick'[t] # tick[t]
        /\ posts[tick[t].due[tick[t].idx]].status # "approved")
       => (posts' = posts /\ jobs' = jobs)]_vars

\* C5: the scheduler tick is single-flight: a tick requested while another is
\* in flight returns zero and touches neither posts nor queue, at most one
\* tick is ever in flight, and a tick that finishes has claimed each of its
\* due posts exactly once, no other tick having claimed them meanwhile.
C5_TickIsSingleFlight ==
  /\ [](Cardinality(InFlight) <= 1)
  /\ [](\A p \in PostIds : Cardinality(claimed[p]) <= 1)
  /\ [][\A t \in Ticks :
          /\ (tick[t].pc = "idle" /\ running /\ tick'[t] # tick[t])
               => (/\ tick'[t].pc = "idle"
                   /\ tick'[t].res = 0
                   /\ UNCHANGED <<posts, jobs, jobSeq, running>>)
          /\ (tick[t].pc = "loop" /\ tick'[t].pc = "idle")
               => (/\ tick'[t].res = Len(tick[t].due)
                   /\ \A i \in 1..Len(tick[t].due) : claimed'[tick[t].due[i]] = {t})]_vars

\* A tick request returned at the guard while the other invocation was in the
\* middle of a batch of two posts.
C5_Witness ==
  \E t, u \in Ticks :
    /\ tick[t].guarded
    /\ tick[u].pc = "loop"
    /\ Len(tick[u].due) = 2
    /\ tick[u].idx = 2
    /\ running

JobsOf(p) == {j \in 1..Len(jobs) : jobs[j].postId = p /\ jobs[j].name = "publish-post"}

C7_TwoPhaseFailure ==
  [][/\ (run.pc = "created" /\ run'.pc = "idle" /\ run'.res = "error")
          => (/\ posts'[run.postId].status = "failed"
              /\ posts'[run.postId].errorMessage \notin {NULL, ""}
              /\ posts'[run.postId].publishedUrl = posts[run.postId].publishedUrl
              /\ run'.url = NULL)
     /\ (run'.url # NULL /\ run' # run)
          => (/\ run.pc = "created" \/ (run.pc = "loaded" /\ run.channel \notin TwoPhase)
              /\ run'.res = "ok"
              /\ posts'[run.postId].status = "published"
              /\ posts'[run.postId].publishedUrl = run'.url)]_vars

\* A two-phase run failed at its publish call on a post never published.
C7_Witness ==
  /\ run.pc = "idle"
  /\ run.res = "error"
  /\ run.err = "media publish failed (500)"
  /\ Exists(1)
  /\ posts[1].status = "failed"
  /\ posts[1].errorMessage = "media publish failed (500)"
  /\ posts[1].publishedUrl = NULL

\* C8: whenever a run of an adapter fails (payload building, account or
\* target-URL resolution, a remote call) the post is left failed with the
\* error's message, and whenever it succeeds the post is left published.
C8_FailedRunMarksFailed ==
  [][\A j \in 1..Len(jobs) :
       /\ (/\ Len(jobs') = Len(jobs)
           /\ jobs'[j].attemptsMade > jobs[j].attemptsMade
           /\ jobs[j].channel \in Adapters)
            => (/\ posts'[jobs[j].postId].status = "failed"
                /\ posts'[jobs[j].postId].errorMessage = run'.err)
       /\ (/\ Len(jobs') = Len(jobs)
           /\ jobs[j].state = "active"
           /\ jobs'[j].state = "completed")
            => posts'[jobs[j].postId].status = "published"]_vars

StoredFor(customerId, key) ==
  {i \in Stored : posts[i].customerId = customerId /\ posts[i].idempotencyKey = key}

C10_ExactlyOneIngest ==
  \A p \in Stored :
    /\ ingests[p] <= 1
    /\ posts[p].status = "published" => ingests[p] = 1

\* An ingest returned in this step (true, or false for a text of no chunk).
IngestReturned(source) ==
  /\ ing'.pc = "idle"
  /\ ing'.res \in {"true", "false"}
  /\ ing'.source = source
  /\ hist'[source].seen
  /\ ing.pc # "idle" \/ ing' # ing \/ hist' # hist

C12_IngestIsShrinkSafe ==
  [][\A source \in Sources :
       (IngestReturned(source)
          /\ (hist[source].seen \/ RowsOf(vectors, source) = <<>>))
       => LET n == Len(chunkText(ing'.text, 500))
          IN /\ {c[1] : c \in StoredChunks(vectors', source)} = 0..(n - 1)
             /\ Len(RowsOf(vectors', source)) = n]_vars

\* Admissions of a customer id in the 60 seconds that end at the instant at.
AdmittedInWindow(customerId, at) ==
  {j \in 1..Len(admitted) :
     /\ admitted[j][1] = customerId
     /\ admitted[j][2] <= at
     /\ at - admitted[j][2] < 60000}

C14_NoHandlerFailsPermanently ==
  [][\A j \in 1..Len(jobs) :
       (/\ Len(jobs') = Len(jobs)
        /\ jobs[j].name \notin handlers
        /\ jobs'[j].attemptsMade > jobs[j].attemptsMade)
       => (jobs'[j].state = "failed" /\ jobs'[j].attemptsMade = 1)]_vars

\* C15: the manual blog channel is never automated: the scheduler's loop
\* never marks a naver-blog post publishing, and the queue never holds a
\* publish job of that channel.
C15_ManualChannelNeverAutomated ==
  /\ [](\A j \in 1..Len(jobs) : jobs[j].channel # "naver-blog")
  /\ [][\A t \in Ticks, p \in Stored :
          (/\ tick[t].pc = "loop"
           /\ tick'[t] # tick[t]
           /\ p = tick[t].due[tick[t].idx])
          => posts[p].channel # "naver-blog"]_vars

\* C16: a publisher run that ends with a channel-mismatch error or with a
\* missing account or credential leaves the post failed.
C16_ConfigurationErrorMarksFailed ==
  [][\A j \in 1..Len(jobs) :
       (/\ Len(jobs') = Len(jobs)
        /\ jobs'[j].attemptsMade > jobs[j].attemptsMade
        /\ run'.err \in {"post is not of this channel", "account is not configured"})
       => (/\ Exists(jobs[j].postId)
           /\ posts'[jobs[j].postId].status = "failed")]_vars

\* C17: status updates on one post are linearized: the write of a status
\* update is applied only when its target is allowed from the status the post
\* has at the moment of the write.
C17_StatusUpdatesAreLinearized ==
  [][\A r \in Reqs :
       (req[r].pc = "patch_write" /\ req'[r].pc = "idle")
       => req[r].body.status \in LifecycleTable[posts[req[r].id].status]]_vars

\* C18: the embedding request never fails the ingest: whatever the embedding
\* service does (no API key, a response that is not ok, a thrown error), the
\* ingest goes on to store its chunks, each with a null embedding unless the
\* service answered.
C18_EmbeddingFailureDoesNotFailIngest ==
  [][(ing.pc = "embed" /\ ing' # ing)
     => (/\ ing'.pc = "upsert"
         /\ Len(ing'.embeddings) = Len(ing.chunks)
         /\ \A i \in 1..Len(ing.chunks) : ing'.embeddings[i] \in {NULL, "vector"})]_vars

\* C19: a past-content fragment is written only for a post that is published
\* when the fragment is written.
C19_OnlyPublishedPostsAreIngested ==
  [][\A p \in Stored :
       (/\ ing.pc = "upsert"
        /\ ing.by = "trigger"
        /\ ing.source.sourceId = ToString(p)
        /\ vectors' # vectors)
       => posts[p].status = "published"]_vars

\* C20: a failure of the ingest that a transition to published triggered is
\* caught and logged: the step that fails writes the log and changes neither
\* a post nor a response; and the write of a transition to published stores
\* the post as published and answers 200.
C20_IngestFailureStaysInTheIngest ==
  /\ [][(ing.pc \in {"embed", "upsert", "delete"} /\ ing.by = "trigger"
         /\ ing'.res = "error")
        => (/\ ingestLog' = [post |-> ing.source.sourceId,
                             message |-> ingestLog'.message]
            /\ ingestLog'.message # NULL
            /\ UNCHANGED <<posts, req, resp>>)]_vars
  /\ [][\A r \in Reqs :
          (/\ req[r].pc = "patch_write"
           /\ req'[r].pc = "idle"
           /\ req[r].body.status = "published")
          => (/\ posts'[req[r].id].status = "published"
              /\ resp'.code = 200
              /\ req[r].id \in pendingIngest')]_vars

\* The ingest of a published post has failed and is logged, while the post is
\* published and the last response is the 200 of its status update.
C20_Witness ==
  /\ ing.res = "error"
  /\ ing.by = "trigger"
  /\ ingestLog # NoLog
  /\ \E p \in Stored :
       /\ ingestLog.post = ToString(p)
       /\ posts[p].status = "published"
       /\ resp.op = "patch"
       /\ resp.code = 200
       /\ resp.id = p

\* A text holds an occurrence of an instruction-mimicking pattern.
Occurs(text, pattern) == \E i \in 1..Len(text) : MatchEnd(text, i, pattern) > 0

MimicPatterns ==
  {IgnorePrevious, DisregardPrior, SystemRole, DeveloperRole,
   <<Lit("tool"), Lit("call")>>, <<Lit("tool"), Lit(" "), Lit("call")>>,
   <<Lit("tool"), Lit("-"), Lit("call")>>, <<Lit("tool"), Lit("_"), Lit("call")>>,
   <<Lit("api"), Lit("key")>>, <<Lit("api"), Lit(" "), Lit("key")>>,
   <<Lit("api"), Lit("-"), Lit("key")>>, <<Lit("api"), Lit("_"), Lit("key")>>}

\* C21: the text that a search returns for a stored text holds no occurrence
\* of any instruction-mimicking pattern.
C21_ReturnedTextHasNoMimicPattern ==
  calc.op = "sanitize" => \A pattern \in MimicPatterns : ~Occurs(calc.out, pattern)

\* The length of a chunk: its paragraphs and a blank line between two of them.
RECURSIVE ChunkLength(_)
ChunkLength(chunk) ==
  IF chunk = <<>> THEN 0
  ELSE chunk[1][2] + (IF Len(chunk) > 1 THEN 2 ELSE 0) + ChunkLength(Tail(chunk))

\* C22: chunking a text that is not empty gives no empty chunk and no chunk
\* longer than the maximum; a paragraph that alone exceeds the maximum comes
\* out in pieces of at most the maximum.
C22_ChunksAreBounded ==
  (calc.op = "chunk" /\ \E i \in 1..Len(calc.in) : calc.in[i][2] > 0)
    => \A k \in 1..Len(calc.out) :
         /\ ChunkLength(calc.out[k]) > 0
         /\ ChunkLength(calc.out[k]) <= calc.max

\* A text with a paragraph of 9 characters between two short ones, chunked at
\* 4: the long paragraph is split in three pieces.
C22_Witness ==
  /\ calc.op = "chunk"
  /\ calc.max = 4
  /\ calc.in = << <<"a", 1>>, <<"a", 9>>, <<"a", 1>> >>
  /\ Len(calc.out) = 5

\* What one more of a field adds to the score of a metric row.
Weight(metric, field) ==
  scoreMetric([metric EXCEPT ![field] = @ + 1]) - scoreMetric(metric)

\* C24: in the engagement score comments weigh most, then shares, then
\* saves, and likes and clicks weigh the same and least.
C24_WeightsAreOrdered ==
  calc.op = "score" =>
    /\ calc.out = scoreMetric(calc.in)
    /\ Weight(calc.in, "comments") > Weight(calc.in, "shares")
    /\ Weight(calc.in, "shares") > Weight(calc.in, "saves")
    /\ Weight(calc.in, "saves") > Weight(calc.in, "likes")
    /\ Weight(calc.in, "likes") = Weight(calc.in, "clicks")

\* C25: a metric row is classified high exactly when its score is at least
\* 120, medium exactly when it is at least 40 and below 120, low exactly when
\* it is below 40.
C25_ClassificationThresholds ==
  calc.op = "classify" =>
    LET score == scoreMetric(calc.in)
    IN /\ (calc.out = "high") <=> (score >= 120)
       /\ (calc.out = "medium") <=> (score >= 40 /\ score < 120)
       /\ (calc.out = "low") <=> (score < 40)

\* A row of score 120 is classified high.
C25_Witness ==
  /\ calc.op = "classify"
  /\ scoreMetric(calc.in) = 120
  /\ calc.out = "high"

\* Of the rows of a post, the one collected last.
RECURSIVE LatestOnly(_)
LatestOnly(rows) ==
  IF rows = <<>> THEN <<>>
  ELSE IF \E j \in 2..Len(rows) : rows[j].postId = rows[1].postId
  THEN LatestOnly(Tail(rows))
  ELSE <<rows[1]>> \o LatestOnly(Tail(rows))

\* C23: a summary counts each post once, with the values of its latest metric
\* row: its totals and its sums per channel are those of the latest rows of
\* the posts collected in the window, however often a post was collected.
C23_SummaryCountsLatestRowOnly ==
  [][(calc' # calc /\ calc'.op = "summary")
     => (/\ calc'.out.totals =
              Aggregate(LatestOnly(SummaryRows(calc'.customerId, calc'.days)))
         /\ \A c \in DOMAIN calc'.out.byChannel :
              calc'.out.byChannel[c] =
                Aggregate(SelectSeq(LatestOnly(SummaryRows(calc'.customerId, calc'.days)),
                                    LAMBDA pm : pm.channel = c)))]_vars

\* A past-content fragment of a post.
IsFragmentOf(row, postId) ==
  row.sourceType = "past-content" /\ row.sourceId = ToString(postId)

\* C26: the collection of a published post runs one insert of a metric row
\* and one performance update, which sets the classification of the metric
\* row on the past-content fragments of that post and leaves every other
\* fragment as it was; the collection of a post that is missing or not
\* published returns false and writes nothing; and nothing else writes a
\* metric row or a classification.
C26_CollectionFrame ==
  /\ [][(col.pc = "update" /\ col'.res = "true")
        => (/\ col'.inserts = 1 /\ col'.updates = 1
            /\ postMetrics' = postMetrics
            /\ postMetrics[Len(postMetrics)].postId = col.postId
            /\ Len(vectors') = Len(vectors)
            /\ \A i \in 1..Len(vectors) :
                 vectors'[i] =
                   IF IsFragmentOf(vectors[i], col.postId)
                   THEN [vectors[i] EXCEPT !.performance =
                           IF scoreMetric(col.metric) >= 120 THEN "high"
                           ELSE IF scoreMetric(col.metric) >= 40 THEN "medium"
                           ELSE "low"]
                   ELSE vectors[i])]_vars
  /\ [][\A p \in PostIds :
          (/\ col.pc = "next"
           /\ col' # col
           /\ col.queue # <<>>
           /\ Head(col.queue)[1] = p
           /\ ~(p \in 1..Len(posts) /\ posts[p].status = "published"))
          => (/\ col'.res = "false"
              /\ col'.pc = "next"
              /\ col'.collected = col.collected
              /\ UNCHANGED <<postMetrics, vectors>>)]_vars
  /\ [][(postMetrics' # postMetrics) => col.pc = "insert"]_vars
  /\ [][(\E i \in 1..Len(vectors) :
           i <= Len(vectors') /\ vectors'[i].performance # vectors[i].performance)
        => col.pc = "update"]_vars

\* A collection listed two published posts, collected the first and skipped
\* the second, which a PUT had taken back to draft: the fragments of the
\* first carry its classification, those of the second none.
C26_Witness ==
  /\ col.pc = "next"
  /\ col.collected = 1
  /\ col.res = "false"
  /\ Len(posts) = 2
  /\ \E i, j \in 1..Len(vectors) :
       /\ vectors[i].performance \in {"high", "medium"}
       /\ vectors[j].performance = NULL
       /\ vectors[j].sourceId = ToString(col.postId)
       /\ vectors[i].sourceId # vectors[j].sourceId


\* C27: every post that a create request stores starts in one of the statuses
\* draft, review or approved; none starts publishing, published or failed.
C27_CreatedPostStartsUnpublished ==
  [][Len(posts') > Len(posts) =>
       posts'[Len(posts')].status \in {"draft", "review", "approved"}]_vars


\* C28: a search for references that throws never ends the request: it goes
\* on to the generation with no references and without a response, and such a
\* request can still be answered 200 with a draft; a generation that throws
\* (no key, a response that is not ok or has no content, content that is not
\* JSON) always ends the request with an error and no content.
C28_RagFailureDegradesGenerationFailureAborts ==
  [][/\ \A references \in RagResults :
          GenRag(FALSE, references)
            => /\ gen'.pc = "llm"
               /\ gen'.ragReferences = NoReferences
               /\ resp' = resp
     /\ \A outcome \in LlmOutcomes :
          GenLlm(outcome) /\ outcome \in {"no-key", "not-ok", "empty", "not-json"}
            => /\ gen'.pc = "idle"
               /\ resp'.by = "gen"
               /\ resp'.code = 502
               /\ resp'.msg = "Content generation failed"
               /\ resp'.content = NoDraft
     /\ gen.pc = "llm" /\ gen'.pc = "idle"
          => (resp'.content # NoDraft <=> resp'.code = 200 /\ resp'.detail = NULL)]_vars

C28_Witness ==
  /\ gen.pc = "idle"
  /\ gen.ragFailed
  /\ resp.by = "gen"
  /\ resp.code = 200
  /\ resp.content = [title |-> "title", content |-> "content"]


\* The filter as the specification states it: the organization, the category
\* and the categories, the performance classes at or above the minimum, the
\* excluded posts, and the channel rule.
StatedFilter(input, row) ==
  /\ row.customerId = input.customerId
  /\ input.category # NULL => row.category = input.category
  /\ input.ragFilters.categories # <<>>
       => \E i \in 1..Len(input.ragFilters.categories) :
            input.ragFilters.categories[i] = row.category
  /\ input.ragFilters.performanceMin = "high" => row.performance = "high"
  /\ input.ragFilters.performanceMin = "medium"
       => row.performance \in {"high", "medium"}
  /\ \A i \in 1..Len(input.ragFilters.excludePostIds) :
       input.ragFilters.excludePostIds[i] # row.sourceId
  /\ row.sourceType = "past-content"
       => row.channel = NULL \/ row.channel = input.channel

\* topic occurs in text, letters compared without their case.
ContainsTopic(text, topic) ==
  \E i \in 0..Len(text) :
    /\ i + Len(topic) <= Len(text)
    /\ \A k \in 1..Len(topic) : LowerChar(text[i + k]) = LowerChar(topic[k])

\* C29: the search returns a row, on the vector path, exactly when the row
\* passes the stated filter, and on the text path exactly when it passes the
\* same filter and its text contains the topic.
C29_BothPathsApplyTheSameFilter ==
  calc.op = "search" =>
    \A i \in 1..Len(calc.tbl) :
      (\E j \in 1..Len(calc.out) : calc.out[j] = calc.tbl[i])
        <=> /\ StatedFilter(calc.in, calc.tbl[i])
            /\ calc.embedded \/ ContainsTopic(calc.tbl[i].textContent, calc.in.topic)


\* C30: when the organization of the post has an account of the channel, the
\* publisher uses that account; the account of the process is used only when
\* the organization has none.
C30_OrganizationAccountComesFirst ==
  calc.op = "resolve" =>
    IF normalizeNumericId(calc.customerAccount) # NULL
    THEN calc.out = normalizeNumericId(calc.customerAccount)
    ELSE calc.out = normalizeNumericId(calc.configured)


\* C31: a publish run that has started comes to its end, with the post out of
\* publishing: a call to the channel that is never answered is cut off and the
\* run fails the post.
C31_PublishRunTerminates ==
  \A p \in PostIds :
    (run.pc # "idle" /\ run.postId = p)
      ~> (run.pc = "idle" /\ Exists(p) /\ posts[p].status # "publishing")

\* C32: a post that the scheduler moved to publishing leaves publishing,
\* unless a call of its run is never answered.
C32_PublishingPostIsEventuallyRun ==
  \A p \in PostIds :
    (Exists(p) /\ posts[p].status = "publishing" /\ run.pc # "hung")
      ~> ((Exists(p) /\ posts[p].status # "publishing") \/ run.pc = "hung")


\* The number of publish calls that the channel accepted for post p, over the
\* runs of the first n jobs of the queue.
RECURSIVE RemotePublishes(_, _)
RemotePublishes(p, n) ==
  IF n = 0 THEN 0
  ELSE RemotePublishes(p, n - 1) + (IF jobs[n].postId = p THEN jobs[n].remote ELSE 0)

\* C33: over all the deliveries of the publish jobs of a post, the channel
\* accepts the publish call at most once.
C33_RemotePublishAtMostOnce ==
  \A p \in PostIds : RemotePublishes(p, Len(jobs)) <= 1


\* C34: of creation requests with one (organization, idempotency key), however
\* they interleave, one post is stored and every request that passed the
\* validation is answered with that post, 201 or 200, none with an error.
C34_ConcurrentCreateIsIdempotent ==
  /\ \A c \in Customers, k \in Keys : Cardinality(StoredFor(c, k)) <= 1
  /\ resp.op = "create" /\ resp.code # 400
       => /\ resp.code \in {200, 201}
          /\ Exists(resp.id)

\* What an ingest of text that ran alone stores: chunk i of the text at index i.
ChunkList(text) ==
  LET chunks == chunkText(text, CHUNK_MAX_LENGTH)
  IN {<<i - 1, chunks[i]>> : i \in 1..Len(chunks)}

BothIngestsReturned ==
  /\ ing.pc = "idle" /\ ing.res = "true"
  /\ overlap.pc = "idle" /\ overlap.res = "true"
  /\ ing.source = overlap.source
  /\ ing.text # overlap.text

\* C35: when two overlapping ingests of one source with different texts have
\* both returned, the chunks stored of the source are the complete chunk list
\* of one of the two texts: no mixture, no leftover index.
C35_OverlappingIngestsLeaveOneText ==
  BothIngestsReturned =>
    StoredChunks(vectors, ing.source) \in {ChunkList(ing.text), ChunkList(overlap.text)}

\* Both ingests returned and the source holds chunks of both texts.
C35_Counterexample ==
  /\ BothIngestsReturned
  /\ \E a \in StoredChunks(vectors, ing.source) : a \in ChunkList(ing.text) \ ChunkList(overlap.text)
  /\ \E b \in StoredChunks(vectors, ing.source) : b \in ChunkList(overlap.text) \ ChunkList(ing.text)

\* C36: the due-post query returns posts that are approved and due only, as
\* many as there are up to the batch size, in ascending scheduledAt order and
\* none later than a due post it leaves out; the count a tick returns is the
\* number of posts it moved to publishing and added a job for.
C36_TickSchedulesTheDueBatch ==
  /\ \A batchSize \in 1..MaxBatch : \A due \in fetchDuePosts(now, batchSize) :
       LET all == {i \in 1..Len(posts) : IsDue(i, now)}
           picked == {due[k] : k \in 1..Len(due)}
       IN /\ picked \subseteq all
          /\ Cardinality(picked) = Len(due)
          /\ Len(due) = IF Cardinality(all) < batchSize THEN Cardinality(all)
                        ELSE batchSize
          /\ \A j, k \in 1..Len(due) :
               j < k => posts[due[j]].scheduledAt <= posts[due[k]].scheduledAt
          /\ \A i \in all \ picked, k \in picked :
               posts[k].scheduledAt <= posts[i].scheduledAt
  /\ \A t \in Ticks :
       tick[t].pc = "idle" /\ tick[t].res >= 0 /\ ~tick[t].guarded
         => tick[t].res = tick[t].added

\* A tick returned a count larger than the number of jobs it added.
C36_Counterexample ==
  \E t \in Ticks : tick[t].pc = "idle" /\ tick[t].res > tick[t].added

\* C37: a write that makes a stored post published leaves it with publishedAt
\* and publishedUrl set and errorMessage cleared, whatever error message the
\* request carried or an earlier failed attempt stored.
C37_PublishedSetsItsFields ==
  [][\A p \in PostIds :
       (Exists(p) /\ posts[p].status # "published" /\ posts'[p].status = "published")
         => /\ posts'[p].publishedAt # NoTime
            /\ posts'[p].publishedUrl # NULL
            /\ posts'[p].errorMessage = NULL]_vars

\* A published post that stores an error message, or no published URL.
C37_Counterexample ==
  \E p \in PostIds :
    /\ Exists(p)
    /\ posts[p].status = "published"
    /\ posts[p].errorMessage # NULL \/ posts[p].publishedUrl = NULL

\* C38: the running flag is raised only while a tick is in flight; a tick
\* that throws, at the due-post query or in its loop, leaves the flag
\* cleared; a raised flag is always cleared again, and a tick started while
\* none is in flight is never turned away at the guard.
C38_GuardIsAlwaysReleased ==
  /\ [](InFlight = {} => ~running)
  /\ [][\A t \in Ticks :
          /\ (~tick[t].threw /\ tick'[t].threw) => ~running'
          /\ (tick[t].pc = "idle" /\ InFlight = {} /\ tick'[t] # tick[t])
               => ~tick'[t].guarded]_vars
  /\ (running ~> ~running)

\* A tick was rejected in its loop after writing a post, and a later tick
\* passed the guard and is working on its batch.
C38_Witness ==
  \E t, u \in Ticks :
    /\ t # u
    /\ tick[t].threw
    /\ tick[u].pc = "loop"
    /\ running
    /\ \E p \in PostIds : Exists(p) /\ posts[p].status = "publishing"

AdmissionsOf(customerId) == {j \in 1..Len(admitted) : admitted[j][1] = customerId}

\* C39: the limiter's window of an organization holds instants of admitted
\* requests only, never more of them than were admitted; a valid request is
\* admitted exactly when fewer than 5 admissions of its own organization lie
\* in the 60 seconds before it, whatever was refused in between and whatever
\* other organizations sent; a request leaves the windows of the other
\* organizations as they were.
C39_RefusedRequestsAreNotRecorded ==
  /\ [](\A c \in RawCustomerIds :
          /\ Len(generateTimestamps[c]) <= Cardinality(AdmissionsOf(c))
          /\ \A i \in 1..Len(generateTimestamps[c]) :
               \E j \in AdmissionsOf(c) : admitted[j][2] = generateTimestamps[c][i])
  /\ [][\A payload \in GenPayloads :
          (validatePayload(payload) = NULL /\ GenBegin(payload))
            => /\ (Cardinality(AdmittedInWindow(payload.customerId, nowMs)) < 5
                    => /\ gen'.pc = "lookup"
                       /\ admitted' = Append(admitted, <<payload.customerId, nowMs>>))
               /\ \A d \in RawCustomerIds \ {payload.customerId} :
                    generateTimestamps'[d] = generateTimestamps[d]]_vars

\* An organization filled its window at 0 and was refused; at 60000 it is
\* admitted again, and its window holds that admission only.
C39_Witness ==
  /\ resp.code = 429
  /\ nowMs = 60000
  /\ generateTimestamps["c1"] = <<60000>>
  /\ Cardinality(AdmissionsOf("c1")) = 6
  /\ gen.pc = "lookup"
  /\ gen.customerId = "c1"

====
